---- MODULE Spec2Model ----
(***************************************************************************)
(* A model of getlantern/golog: the logger facade (facade.go), the         *)
(* process-wide cells it reads (loggerBuilder, outs, onFatal), the stream  *)
(* backend (streamLogger in golog.go) and the zap-backed logger (zapper in *)
(* zap.go).  Goroutines are the threads of Threads; every atomic load or   *)
(* store, every Write on a configured writer and every handler invocation  *)
(* is one step, so that the interleavings the Go scheduler allows are the  *)
(* interleavings of the model.                                             *)
(***************************************************************************)
EXTENDS Integers, Sequences, FiniteSets, TLC

(***************************************************************************)
(* Bounds of the model.                                                    *)
(***************************************************************************)
\* SetOutputs calls made in one run
MaxConfigs == 2
\* OnFatal / DefaultOnFatal calls made in one run, after init()
MaxSwaps == 2
\* RegisterReporter calls made in one run
MaxReporters == 1

(***************************************************************************)
(* Program constants.                                                      *)
(***************************************************************************)
ERROR == 500
FATAL == 600

\* Severity.String()
SeverityString(s) ==
    CASE s = ERROR -> "ERROR"
      [] s = FATAL -> "FATAL"
      [] OTHER -> "UNKNOWN"

(***************************************************************************)
(* Go values handed to the logging calls.  An error value has an identity: *)
(* two caller errors with the same text are different values.  An error    *)
(* the library builds is told from every caller error by its origin.       *)
(***************************************************************************)
NilValue == [kind |-> "nil"]
StringValue(s) == [kind |-> "string", s |-> s]
IntValue(n) == [kind |-> "int", n |-> n]
CallerError(id, text) == [kind |-> "error", origin |-> "caller", id |-> id, text |-> text]

\* the type switch `case error:` of errorSkipFrames, and `arg.(error)`
IsError(v) == v.kind = "error"

\* the empty atomic.Value, and the absence of a value in a local
Nil == [kind |-> "empty"]

\* a []interface{} handed on as one value
SliceValue(elems) == [kind |-> "slice", elems |-> elems]

\* fmt's %v of one value
RECURSIVE Sprint(_)
Sprint(v) ==
    CASE v.kind = "nil" -> "<nil>"
      [] v.kind = "string" -> v.s
      [] v.kind = "int" -> ToString(v.n)
      [] v.kind = "error" -> v.text
      [] v.kind = "multiline" -> v.text
      [] v.kind = "slice" ->
           IF v.elems = <<>> THEN "[]"
           ELSE IF Len(v.elems) = 1 THEN "[" \o Sprint(Head(v.elems)) \o "]"
           ELSE "[" \o Sprint(Head(v.elems)) \o " "
                    \o SubSeq(Sprint(SliceValue(Tail(v.elems))), 2,
                              Len(Sprint(SliceValue(Tail(v.elems)))))
      [] OTHER -> "?"

\* fmt.Sprint of the remaining operands, as fmt lists them in %!(EXTRA ...)
RECURSIVE Extra(_)
Extra(args) ==
    IF args = <<>> THEN ""
    ELSE Sprint(Head(args)) \o (IF Tail(args) = <<>> THEN "" ELSE ", " \o Extra(Tail(args)))

\* fmt.Sprintf(message, args...): message is the format cut at its %v verbs
RECURSIVE Sprintf(_, _)
Sprintf(message, args) ==
    IF message = <<>>
    THEN IF args = <<>> THEN "" ELSE "%!(EXTRA " \o Extra(args) \o ")"
    ELSE IF Head(message) = "%v"
         THEN IF args = <<>>
              THEN "%!v(MISSING)" \o Sprintf(Tail(message), <<>>)
              ELSE Sprint(Head(args)) \o Sprintf(Tail(message), Tail(args))
         ELSE Head(message) \o Sprintf(Tail(message), args)

\* a message handed on as a plain string, its verbs not interpreted
RECURSIVE Plain(_)
Plain(message) == IF message = <<>> THEN "" ELSE Head(message) \o Plain(Tail(message))

\* fmt.Errorf("%v", e)
FmtErrorf(e) == [kind |-> "error", origin |-> "fmt.Errorf", text |-> Sprint(e)]

\* the standard library's errors.New(msg), used by zapper
StdErrorsNew(msg) == [kind |-> "error", origin |-> "errors.New", text |-> msg]

\* the first operand that is an error, scanning left to right; Nil if none
RECURSIVE FirstError(_)
FirstError(args) ==
    IF args = <<>> THEN Nil
    ELSE IF IsError(Head(args)) THEN Head(args) ELSE FirstError(Tail(args))

\* errors.NewOffset(errorSkipFrames, message, args...): a new structured
\* error whose text is the formatted message and whose cause is the first
\* operand that is an error
NewOffset(message, args) ==
    [kind |-> "error", origin |-> "errors.NewOffset",
     text |-> Sprintf(message, args), cause |-> FirstError(args)]

(***************************************************************************)
(* The context of an event (printContext) and the lines of a multi-line    *)
(* value (MultiLine).                                                      *)
(***************************************************************************)
\* a byte of a key
Code(c) ==
    CASE c = "B" -> 66
      [] c = "a" -> 97
      [] c = "b" -> 98
      [] c = "k" -> 107
      [] c = "o" -> 111
      [] c = "p" -> 112
      [] OTHER -> 0

\* Go's a < b on strings: byte by byte, a proper prefix first
RECURSIVE LessString(_, _)
LessString(a, b) ==
    IF a = "" THEN b # ""
    ELSE IF b = "" THEN FALSE
    ELSE LET ca == Code(SubSeq(a, 1, 1))
             cb == Code(SubSeq(b, 1, 1))
         IN IF ca # cb THEN ca < cb
            ELSE LessString(SubSeq(a, 2, Len(a)), SubSeq(b, 2, Len(b)))

\* keys left in an order that is not the sorted one: the descending order
RECURSIVE KeysInMapOrder(_)
KeysInMapOrder(keys) ==
    IF keys = {} THEN <<>>
    ELSE LET m == CHOOSE x \in keys : \A y \in keys \ {x} : LessString(y, x)
         IN <<m>> \o KeysInMapOrder(keys \ {m})

\* for key := range values { keys = append(keys, key) }; sort.Strings(keys)
RECURSIVE SortStrings(_)
SortStrings(keys) ==
    IF keys = {} THEN <<>>
    ELSE LET m == CHOOSE x \in keys : \A y \in keys \ {x} : LessString(x, y)
         IN <<m>> \o SortStrings(keys \ {m})

\* the empty map[string]interface{}
EmptyMap == <<>>

\* values[k] = v
MapPut(values, k, v) == [x \in DOMAIN values \cup {k} |-> IF x = k THEN v ELSE values[x]]

\* for i := 0; i < len(additionalContext); i += 2 {
\*     values[additionalContext[i].(string)] = additionalContext[i+1] }
RECURSIVE AddPairs(_, _)
AddPairs(values, additionalContext) ==
    IF Len(additionalContext) < 2 THEN values
    ELSE AddPairs(MapPut(values, additionalContext[1].s, additionalContext[2]),
                  SubSeq(additionalContext, 3, Len(additionalContext)))

\* ops.AsMap(err, false): the key/value pairs the operation context holds
\* for the value, those an error carries and else those of the goroutine
AsMap(err, oc) == IF IsError(err) /\ "ctx" \in DOMAIN err THEN err.ctx ELSE oc

\* "k1=v1 k2=v2" for the keys in the order given
RECURSIVE JoinPairs(_, _)
JoinPairs(keys, values) ==
    IF keys = <<>> THEN ""
    ELSE Head(keys) \o "=" \o Sprint(values[Head(keys)])
         \o (IF Tail(keys) = <<>> THEN "" ELSE " " \o JoinPairs(Tail(keys), values))

\* printContext(additionalContext, buf, err): the keys it writes, in the
\* order it writes them, and the bytes it appends to the buffer
PrintContext(additionalContext, err, oc) ==
    LET asMap == AsMap(err, oc)
        values == IF Len(additionalContext) > 0 /\ Len(additionalContext) % 2 = 0
                  THEN AddPairs(asMap, additionalContext)
                  ELSE asMap
        keys == IF DOMAIN values = {} THEN <<>> ELSE SortStrings(DOMAIN values)
    IN [keys |-> keys,
        values |-> values,
        text |-> IF DOMAIN values = {} THEN ""
                 ELSE " [" \o JoinPairs(keys, values) \o "]"]

\* arg.(MultiLine): the value has a MultiLinePrinter.  Its field mlp lists
\* what the successive calls of the printer do: the line each writes and
\* whether it returns true
IsMultiLine(v) == "mlp" \in DOMAIN v

\* the loop of print over a multi-line value: writeHeader(), mlp(buf), the
\* context after the first line, '\n', until mlp returns false; mlp is what
\* the calls not yet made will do
RECURSIVE MultiLineLoop(_, _, _, _)
MultiLineLoop(header, mlp, context, first) ==
    LET call == Head(mlp)
        this == [header |-> header, text |-> call.line,
                 context |-> IF first THEN context ELSE ""]
    IN <<this>> \o (IF call.more THEN MultiLineLoop(header, Tail(mlp), context, FALSE)
                    ELSE <<>>)

\* the bytes of the lines in the buffer
RECURSIVE LinesText(_)
LinesText(lines) ==
    IF lines = <<>> THEN ""
    ELSE Head(lines).header \o Head(lines).text \o Head(lines).context \o "\n"
         \o LinesText(Tail(lines))

(***************************************************************************)
(* The TRACE environment variable (isTraceEnabled).                        *)
(***************************************************************************)
\* strconv.ParseBool: its value, and false when it returns an error
ParseBool(str) == str \in {"1", "t", "T", "TRUE", "true", "True"}

\* strings.Split(str, ","): the pieces between the commas, the piece being
\* read in cur
RECURSIVE SplitFrom(_, _)
SplitFrom(str, cur) ==
    IF str = "" THEN <<cur>>
    ELSE IF SubSeq(str, 1, 1) = ","
         THEN <<cur>> \o SplitFrom(SubSeq(str, 2, Len(str)), "")
         ELSE SplitFrom(SubSeq(str, 2, Len(str)), cur \o SubSeq(str, 1, 1))

Split(str) == SplitFrom(str, "")

\* strings.Trim(p, " ")
RECURSIVE Trim(_)
Trim(p) ==
    IF p = "" THEN ""
    ELSE IF SubSeq(p, 1, 1) = " " THEN Trim(SubSeq(p, 2, Len(p)))
    ELSE IF SubSeq(p, Len(p), Len(p)) = " " THEN Trim(SubSeq(p, 1, Len(p) - 1))
    ELSE p

\* isTraceEnabled(prefix), trace being os.Getenv("TRACE")
IsTraceEnabled(trace, prefix) ==
    \/ ParseBool(trace)
    \/ \E i \in DOMAIN Split(trace) : prefix = Trim(Split(trace)[i])

(***************************************************************************)
(* Inputs.                                                                 *)
(***************************************************************************)
\* the goroutines: one configures the library, the other logs
Threads == {"main", "worker"}
Configurators == {"main"}
Loggers == {"worker"}
Prefixes == {"myprefix"}
\* io.Writers handed to SetOutputs; a Write on a writer of FailingWriters
\* returns an error (a closed file), a Write on the others returns nil
Writers == {"buf", "closed"}
FailingWriters == {"closed"}
\* functions handed to OnFatal; "exit1" is the function DefaultOnFatal stores
Handlers == {"h1"}
DefaultHandler == "exit1"
\* callbacks handed to RegisterReporter
Reporters == {"r1"}

ErrA == CallerError(1, "boom")
\* same text as ErrA, another value
ErrB == CallerError(2, "boom")
ArgValues == {NilValue, StringValue("x"), StringValue(""), IntValue(7), ErrA, ErrB}
Messages == {<<>>, <<"m">>, <<"m ", "%v">>}
ArgLists == {<<>>, <<StringValue("x")>>, <<StringValue("x"), ErrA>>, <<ErrB, ErrA>>}
\* key/value pairs of the ...w methods; keys are strings
KvLists == {<<>>, <<StringValue("k"), StringValue("v")>>, <<StringValue("k")>>}

\* the methods of the Logger interface a facade forwards (facade.go)
DebugOps == {"Debug", "Debugf", "Debugw"}
ErrorOps == {"Error", "Errorf", "Errorw"}
FatalOps == {"Fatal", "Fatalf", "Fatalw"}
LogOps == DebugOps \cup ErrorOps \cup FatalOps
TraceOps == {"Trace", "Tracef", "Tracew"}

VARIABLES
    loggerBuilder,  \* facade.go: var loggerBuilder atomic.Value
    outs,           \* golog.go: var outs atomic.Value
    onFatal,        \* golog.go: var onFatal atomic.Value
    reporters,      \* the registered reporter callbacks, in registration order
    facades,        \* the facade LoggerFor returned for each prefix, if any
    halted,         \* "no", or how the process ended: "exit1", "panic"
    fr,             \* each goroutine's current call: its operands, locals, position
    cfgSeq,         \* history: SetOutputs calls started so far
    returned,       \* history: SetOutputs calls that have returned so far
    bufferPool,     \* golog.go: var bufferPool, the buffers in the pool's channel
    traceEnv,       \* the process environment: os.Getenv("TRACE")
    traceOut,       \* the pipe of a trace writer and its reader goroutine
    zapConfig,      \* zap.go: var zapConfig
    zlog,           \* zap.go: var zlog
    once,           \* zap.go: var once sync.Once ("idle", "running" or "done")
    capture,        \* testlog: the capture in progress and what its stop function holds
    testLogWriter,  \* testlog: the testLogWriter of a Capture, with its goroutine and t.Log
    textOutput      \* the textOutput TextOutput returned, with what it wrote

vars == <<loggerBuilder, outs, onFatal, reporters, facades, halted, fr,
          cfgSeq, returned, bufferPool, traceEnv, traceOut, zapConfig, zlog, once,
          capture, testLogWriter, textOutput>>
cells == <<loggerBuilder, outs, onFatal, reporters>>
hist == <<cfgSeq, returned>>
zap == <<zapConfig, zlog, once>>
\* what the stream backend's configuration and logging calls never touch
writerAndOutput == <<testLogWriter, textOutput>>
apart == <<traceEnv, traceOut, zapConfig, zlog, once, capture, testLogWriter, textOutput>>

\* no trace writer was made yet
NoTraceWriter == [kind |-> "none"]

\* zap.NewProductionConfig() and zap.NewDevelopmentConfig()
ProductionConfig == "production"
DevelopmentConfig == "development"

\* a goroutine between calls
IdleFrame ==
    [op |-> "none", pc |-> "idle", logger |-> "none", prefix |-> "",
     arg |-> Nil, message |-> <<>>, args |-> <<>>, kv |-> <<>>,
     method |-> "none", l |-> Nil, o |-> Nil, out |-> "none", err |-> Nil,
     severity |-> 0, line |-> Nil, wrote |-> FALSE, unableToLog |-> <<>>,
     reports |-> <<>>, fatals |-> <<>>, ret |-> Nil,
     cfg |-> 0, errorOut |-> "none", debugOut |-> "none", fn |-> "none",
     startReturned |-> 0, startFatal |-> 0,
     traceOn |-> FALSE, oc |-> EmptyMap, buf |-> Nil, writes |-> 0,
     startCapture |-> "none", config |-> "none", p |-> "", site |-> "none",
     printStack |-> FALSE, i |-> 0, funcForPc |-> Nil, linePrefix |-> "", stack |-> <<>>]

\* golog.go init(): DefaultOnFatal() and nothing else; loggerBuilder and outs
\* are zero atomic.Values
Init ==
    /\ loggerBuilder = Nil
    /\ outs = Nil
    /\ onFatal = [kind |-> "handler", fn |-> DefaultHandler, seq |-> 0]
    /\ reporters = <<>>
    /\ facades = [p \in Prefixes |-> Nil]
    /\ halted = "no"
    /\ fr = [t \in Threads |-> IdleFrame]
    /\ cfgSeq = 0
    /\ returned = 0
    /\ bufferPool = <<>>
    /\ traceEnv = ""
    /\ traceOut = NoTraceWriter
    /\ zapConfig = ProductionConfig
    /\ zlog = Nil
    /\ once = "idle"
    /\ capture = Nil
    /\ testLogWriter = Nil
    /\ textOutput = Nil

Free(t) == halted = "no" /\ fr[t].pc \in {"idle", "done"}
At(t, op, pc) == halted = "no" /\ fr[t].op = op /\ fr[t].pc = pc

(***************************************************************************)
(* Configuration calls.                                                    *)
(***************************************************************************)
\* SetOutputs is called
CallSetOutputs(t) ==
    /\ Free(t)
    /\ cfgSeq < MaxConfigs
    /\ \E e \in Writers, d \in Writers :
         fr' = [fr EXCEPT ![t] = [IdleFrame EXCEPT !.op = "SetOutputs", !.pc = "storeOuts",
                                   !.cfg = cfgSeq + 1, !.errorOut = e, !.debugOut = d]]
    /\ cfgSeq' = cfgSeq + 1
    /\ UNCHANGED <<cells, facades, halted, returned, bufferPool, apart>>

\* a SetOutputs that keeps the outputs of the first call (a set-once cell)
StoreOutsOnce(t) ==
    /\ At(t, "SetOutputs", "storeOuts")
    /\ outs' = IF outs = Nil
               THEN [kind |-> "outputs", ErrorOut |-> fr[t].errorOut,
                     DebugOut |-> fr[t].debugOut, cfg |-> fr[t].cfg]
               ELSE outs
    /\ fr' = [fr EXCEPT ![t].pc = "storeBuilder"]
    /\ UNCHANGED <<loggerBuilder, onFatal, reporters, facades, halted, hist, bufferPool, apart>>

\* outs.Store(&outputs{ErrorOut: errorOut, DebugOut: debugOut})
StoreOuts(t) ==
    /\ At(t, "SetOutputs", "storeOuts")
    /\ outs' = [kind |-> "outputs", ErrorOut |-> fr[t].errorOut,
                DebugOut |-> fr[t].debugOut, cfg |-> fr[t].cfg]
    /\ fr' = [fr EXCEPT ![t].pc = "storeBuilder"]
    /\ UNCHANGED <<loggerBuilder, onFatal, reporters, facades, halted, hist, bufferPool, apart>>

\* setBaseLoggerBuilder(func(prefix, traceOn, printStack) baseLogger {...}),
\* after which SetOutputs returns
StoreBuilder(t) ==
    /\ At(t, "SetOutputs", "storeBuilder")
    /\ loggerBuilder' = [kind |-> "builder", makes |-> "streamLogger", cfg |-> fr[t].cfg]
    /\ returned' = fr[t].cfg
    /\ fr' = [fr EXCEPT ![t].pc = "done"]
    /\ UNCHANGED <<outs, onFatal, reporters, facades, halted, cfgSeq, bufferPool, apart>>

\* OnFatal(fn): onFatal.Store(fn)
OnFatal(t) ==
    /\ Free(t)
    /\ onFatal.seq < MaxSwaps
    /\ \E fn \in Handlers :
         /\ onFatal' = [kind |-> "handler", fn |-> fn, seq |-> onFatal.seq + 1]
         /\ fr' = [fr EXCEPT ![t] = [IdleFrame EXCEPT !.op = "OnFatal", !.pc = "done", !.fn = fn]]
    /\ UNCHANGED <<loggerBuilder, outs, reporters, facades, halted, hist, bufferPool, apart>>

\* a DefaultOnFatal that leaves a function given to OnFatal in place
DefaultOnFatalKeepsOverride(t) ==
    /\ Free(t)
    /\ onFatal.seq < MaxSwaps
    /\ onFatal' = [kind |-> "handler", fn |-> onFatal.fn, seq |-> onFatal.seq + 1]
    /\ fr' = [fr EXCEPT ![t] = [IdleFrame EXCEPT !.op = "DefaultOnFatal", !.pc = "done",
                                 !.fn = DefaultHandler]]
    /\ UNCHANGED <<loggerBuilder, outs, reporters, facades, halted, hist, bufferPool, apart>>

\* DefaultOnFatal(): onFatal.Store(func(err error) { os.Exit(1) })
DefaultOnFatal(t) ==
    /\ Free(t)
    /\ onFatal.seq < MaxSwaps
    /\ onFatal' = [kind |-> "handler", fn |-> DefaultHandler, seq |-> onFatal.seq + 1]
    /\ fr' = [fr EXCEPT ![t] = [IdleFrame EXCEPT !.op = "DefaultOnFatal", !.pc = "done",
                                 !.fn = DefaultHandler]]
    /\ UNCHANGED <<loggerBuilder, outs, reporters, facades, halted, hist, bufferPool, apart>>

\* RegisterReporter(reporter): the callback joins the registered reporters
RegisterReporter(t) ==
    /\ Free(t)
    /\ Len(reporters) < MaxReporters
    /\ \E r \in Reporters : reporters' = Append(reporters, r)
    /\ fr' = [fr EXCEPT ![t] = [IdleFrame EXCEPT !.op = "RegisterReporter", !.pc = "done"]]
    /\ UNCHANGED <<loggerBuilder, outs, onFatal, facades, halted, hist, bufferPool, apart>>

\* the trace writer of a logger whose flag is off: ioutil.Discard
Discard == [kind |-> "discard"]

\* newTraceWriter(): pr, pw := io.Pipe(); br := bufio.NewReader(pr); the
\* goroutine reading br starts.  inflight are the bytes of a Write the reader
\* has not read, buffered the bytes br holds, traced the values the reader
\* handed to l.Trace, eofReads the reads that returned an error
NewTraceWriter ==
    [kind |-> "pipe", closed |-> FALSE, inflight |-> "", buffered |-> "",
     traced |-> <<>>, eofReads |-> 0, writes |-> 0]

\* LoggerFor(prefix): a facade holding the prefix and the flags, no backend,
\* and its trace writer; born is history: the SetOutputs calls started before
\* the facade was made
LoggerFor(t) ==
    /\ Free(t)
    /\ \E p \in Prefixes :
         /\ facades[p] = Nil
         /\ facades' = [facades EXCEPT ![p] = [kind |-> "facade", prefix |-> p, born |-> cfgSeq,
                                               traceOn |-> IsTraceEnabled(traceEnv, p)]]
         /\ traceOut' = IF IsTraceEnabled(traceEnv, p) THEN NewTraceWriter ELSE Discard
    /\ fr' = [fr EXCEPT ![t] = [IdleFrame EXCEPT !.op = "LoggerFor", !.pc = "done"]]
    /\ UNCHANGED <<cells, halted, hist, bufferPool, traceEnv, zap, capture, writerAndOutput>>

(***************************************************************************)
(* testlog: Capture and the stop function it returns.                      *)
(***************************************************************************)
\* the testLogWriter of a capture: its Write hands the bytes to t.Log and
\* returns no error
TestLogWriter == "testlog"

\* a Capture that leaves the debug writer as it was
CaptureErrorsOnly(t) ==
    /\ Free(t)
    /\ capture = Nil
    /\ cfgSeq < MaxConfigs
    /\ fr' = [fr EXCEPT ![t] = [IdleFrame EXCEPT !.op = "SetOutputs", !.pc = "storeOuts",
                                  !.cfg = cfgSeq + 1, !.errorOut = TestLogWriter,
                                  !.debugOut = IF outs = Nil THEN TestLogWriter
                                               ELSE outs.DebugOut]]
    /\ capture' = [kind |-> "capture", prev |-> outs, cfg |-> cfgSeq + 1, stopped |-> FALSE]
    /\ cfgSeq' = cfgSeq + 1
    /\ UNCHANGED <<cells, facades, halted, returned, bufferPool, traceEnv, traceOut, zap,
                   writerAndOutput>>

\* testlog.Capture(t): w := &testLogWriter{t}; golog.SetOutputs(w, w) is
\* called (and runs as every SetOutputs call does); what it returns, the stop
\* function, holds the outputs that were stored when it was called
Capture(t) ==
    /\ Free(t)
    /\ capture = Nil
    /\ cfgSeq < MaxConfigs
    /\ fr' = [fr EXCEPT ![t] = [IdleFrame EXCEPT !.op = "SetOutputs", !.pc = "storeOuts",
                                  !.cfg = cfgSeq + 1, !.errorOut = TestLogWriter,
                                  !.debugOut = TestLogWriter]]
    /\ capture' = [kind |-> "capture", prev |-> outs, cfg |-> cfgSeq + 1, stopped |-> FALSE]
    /\ cfgSeq' = cfgSeq + 1
    /\ UNCHANGED <<cells, facades, halted, returned, bufferPool, traceEnv, traceOut, zap,
                   writerAndOutput>>

\* where the capture is, for a call that starts now: "none" before Capture
\* has returned, "capturing" until stop is called, "stopped" after it
CapturePhase ==
    IF capture = Nil \/ returned < capture.cfg THEN "none"
    ELSE IF capture.stopped THEN "stopped" ELSE "capturing"

\* stop(): the function SetOutputs returned stores back the outputs it
\* holds; storing the nil of an empty cell panics
Stop(t) ==
    /\ Free(t)
    /\ CapturePhase = "capturing"
    /\ IF capture.prev = Nil
       THEN /\ halted' = "panic"
            /\ fr' = [fr EXCEPT ![t] = [IdleFrame EXCEPT !.op = "stop", !.pc = "panicked"]]
            /\ UNCHANGED outs
       ELSE /\ outs' = capture.prev
            /\ fr' = [fr EXCEPT ![t] = [IdleFrame EXCEPT !.op = "stop", !.pc = "done"]]
            /\ UNCHANGED halted
    /\ capture' = [capture EXCEPT !.stopped = TRUE]
    /\ UNCHANGED <<loggerBuilder, onFatal, reporters, facades, hist, bufferPool,
                   traceEnv, traceOut, zap, writerAndOutput>>

(***************************************************************************)
(* Logging calls through a facade.                                         *)
(***************************************************************************)
\* the operands of one call of method op, drawn from the given input sets
Operands(op, V, M, AL, KL) ==
    CASE op \in {"Debug", "Error", "Fatal", "Trace"} ->
           {[arg |-> a, message |-> <<>>, args |-> <<>>, kv |-> <<>>] : a \in V}
      [] op \in {"Debugf", "Errorf", "Fatalf", "Tracef"} ->
           {[arg |-> Nil, message |-> m, args |-> al, kv |-> <<>>] : m \in M, al \in AL}
      [] OTHER ->
           {[arg |-> Nil, message |-> m, args |-> <<>>, kv |-> kl] : m \in M, kl \in KL}

\* a method of a facade is called, by a goroutine whose operation context
\* holds the key/value pairs of one of OC
CallFacade(t, V, M, AL, KL, OC) ==
    /\ Free(t)
    /\ \E p \in Prefixes, op \in LogOps :
         /\ facades[p] # Nil
         /\ \E x \in Operands(op, V, M, AL, KL), oc \in OC :
              fr' = [fr EXCEPT ![t] =
                       [IdleFrame EXCEPT !.op = op, !.pc = "getBaseLogger", !.logger = "facade",
                                         !.prefix = facades[p].prefix,
                                         !.traceOn = facades[p].traceOn,
                                         !.oc = oc,
                                         !.arg = x.arg, !.message = x.message,
                                         !.args = x.args, !.kv = x.kv,
                                         !.startReturned = returned,
                                         !.startFatal =
                                             IF op \in FatalOps THEN onFatal.seq ELSE 0,
                                         !.startCapture = CapturePhase]]
    /\ UNCHANGED <<cells, facades, halted, hist, bufferPool, apart>>

\* the base logger method each facade method calls (facade.go:26-76)
FacadeTarget(op) == IF op = "Fatalw" THEN "Fatalf" ELSE op

\* the variadic operands the facade hands on: Fatalw hands its key/value
\* pairs to Fatalf as format operands
FacadeArgs(f) == IF f.op = "Fatalw" THEN f.kv ELSE f.args
FacadeKv(f) == IF f.op = "Fatalw" THEN <<>> ELSE f.kv

\* the builder SetOutputs stores: a streamLogger for the prefix and the flag
BuildLogger(builder, prefix, traceOn) ==
    [kind |-> builder.makes, prefix |-> prefix \o ": ", traceOn |-> traceOn,
     cfg |-> builder.cfg]

\* loggerFacade.getBaseLogger: loggerBuilder.Load().(baseLoggerBuilder)(prefix, ...);
\* the type assertion panics on the empty cell
GetBaseLogger(t) ==
    /\ halted = "no"
    /\ fr[t].pc = "getBaseLogger"
    /\ IF loggerBuilder = Nil
       THEN /\ halted' = "panic"
            /\ fr' = [fr EXCEPT ![t].pc = "panicked"]
       ELSE /\ fr' = [fr EXCEPT ![t].l = BuildLogger(loggerBuilder, fr[t].prefix, fr[t].traceOn),
                                ![t].method = FacadeTarget(fr[t].op),
                                ![t].args = FacadeArgs(fr[t]),
                                ![t].kv = FacadeKv(fr[t]),
                                ![t].pc = "getOutputs"]
            /\ UNCHANGED halted
    /\ UNCHANGED <<cells, facades, hist, bufferPool, apart>>

\* the severity a streamLogger method logs at
MethodSeverity(method) ==
    CASE method \in DebugOps -> "DEBUG"
      [] method \in TraceOps -> "TRACE"
      [] method \in ErrorOps -> SeverityString(ERROR)
      [] OTHER -> SeverityString(FATAL)

\* the value a streamLogger method hands to errorSkipFrames
ErrorOperand(f) ==
    CASE f.method \in {"Error", "Fatal"} -> f.arg
      [] f.method \in {"Errorf", "Fatalf"} -> NewOffset(f.message, f.args)
      [] OTHER -> StringValue(Plain(f.message))

\* a type switch without its default case: err stays nil for a non-error
ResolveErrorNoDefault(arg) == IF IsError(arg) THEN arg ELSE NilValue

\* errorSkipFrames' type switch: an error is kept, anything else becomes
\* fmt.Errorf("%v", e)
ResolveError(arg) == IF IsError(arg) THEN arg ELSE FmtErrorf(arg)

\* the writer a streamLogger method takes from the loaded outputs
PickWriter(method, o) ==
    IF method \in DebugOps \cup TraceOps THEN o.DebugOut ELSE o.ErrorOut

\* a Trace that prints whatever the flag of its logger
TraceAlwaysOn(l, method) == FALSE

\* `if l.traceOn { ... }` of Trace, Tracef and Tracew: the call returns at
\* once when the flag is off
TraceOff(l, method) == method \in TraceOps /\ ~l.traceOn

\* getOutputs(): outs.Load().(*outputs), evaluated as an operand of print or
\* printf; the type assertion panics on the empty cell
GetOutputs(t) ==
    /\ halted = "no"
    /\ fr[t].pc = "getOutputs"
    /\ IF TraceOff(fr[t].l, fr[t].method)
       THEN /\ fr' = [fr EXCEPT ![t].pc = "done"]
            /\ UNCHANGED halted
       ELSE IF outs = Nil
       THEN /\ halted' = "panic"
            /\ fr' = [fr EXCEPT ![t].pc = "panicked"]
       ELSE /\ fr' = [fr EXCEPT ![t].o = outs,
                                ![t].out = PickWriter(fr[t].method, outs),
                                ![t].err = IF fr[t].method \in DebugOps \cup TraceOps THEN Nil
                                           ELSE ResolveError(ErrorOperand(fr[t])),
                                ![t].pc = "getBuffer"]
            /\ UNCHANGED halted
    /\ UNCHANGED <<cells, facades, hist, bufferPool, apart>>

\* printContext's explicit pairs: taken only when their number is even and
\* not zero
KvContext(kv) == IF Len(kv) > 0 /\ Len(kv) % 2 = 0 THEN kv ELSE <<>>

\* bufferPool = bpool.NewBufferPool(200): the buffers the pool's channel holds
bufferPoolSize == 200

\* the largest buffer TestPool expects the pool to take back; golog.go sets
\* no such size, and the model takes one block of a buffer's array for it
maxBufferSize == 64

\* the buffers a call holds (between Get and Put) or the pool holds
BuffersInUse ==
    {fr[t].buf.id : t \in {u \in Threads : fr[u].buf # Nil}}
        \cup {bufferPool[i].id : i \in DOMAIN bufferPool}

\* bytes.NewBuffer of the pool's Get: a buffer that is no other buffer
NewBuffer == [id |-> CHOOSE n \in 1..(Cardinality(Threads) + 1) :
                        n \notin BuffersInUse /\ \A m \in 1..(n - 1) : m \in BuffersInUse,
              cap |-> 0]

\* a Get that hands out the pool's first buffer and leaves it in the pool
BufferGetShared(t) ==
    /\ halted = "no"
    /\ fr[t].pc = "getBuffer"
    /\ fr' = [fr EXCEPT ![t].buf = IF bufferPool = <<>> THEN NewBuffer ELSE Head(bufferPool),
                        ![t].pc = "write"]
    /\ UNCHANGED <<cells, facades, halted, hist, bufferPool, apart>>

\* buf := bufferPool.Get(): a buffer received from the pool's channel, or a
\* new one when the channel is empty
BufferGet(t) ==
    /\ halted = "no"
    /\ fr[t].pc = "getBuffer"
    /\ IF bufferPool = <<>>
       THEN /\ fr' = [fr EXCEPT ![t].buf = NewBuffer, ![t].pc = "write"]
            /\ UNCHANGED bufferPool
       ELSE /\ fr' = [fr EXCEPT ![t].buf = Head(bufferPool), ![t].pc = "write"]
            /\ bufferPool' = Tail(bufferPool)
    /\ UNCHANGED <<cells, facades, halted, hist, apart>>

\* linePrefix: the prefix and the caller's file and line, which the model
\* leaves alike for every call
LinePrefix(l) == l.prefix \o "f.go:1 "

\* writeHeader()
Header(severity, l) == severity \o " " \o LinePrefix(l)

\* a loop that writes the context after every line
PrintLinesContextEveryLine(l, additionalContext, severity, arg, oc) ==
    IF arg = NilValue THEN <<>>
    ELSE LET context == PrintContext(additionalContext, arg, oc).text IN
         IF ~IsMultiLine(arg)
         THEN <<[header |-> Header(severity, l), text |-> Sprint(arg), context |-> context]>>
         ELSE [i \in DOMAIN MultiLineLoop(Header(severity, l), arg.mlp, context, TRUE) |->
                 [MultiLineLoop(Header(severity, l), arg.mlp, context, TRUE)[i]
                    EXCEPT !.context = context]]

\* print: the lines it writes to the buffer, none for a nil arg
PrintLines(l, additionalContext, severity, arg, oc) ==
    IF arg = NilValue THEN <<>>
    ELSE LET context == PrintContext(additionalContext, arg, oc).text IN
         IF ~IsMultiLine(arg)
         THEN <<[header |-> Header(severity, l), text |-> Sprint(arg), context |-> context]>>
         ELSE MultiLineLoop(Header(severity, l), arg.mlp, context, TRUE)

\* printf: the line it writes to the buffer
PrintfLines(l, additionalContext, severity, err, message, args, oc) ==
    <<[header |-> Header(severity, l), text |-> Sprintf(message, args),
       context |-> PrintContext(additionalContext, err, oc).text]>>

\* the operands each streamLogger method hands to print or printf
PrintOperands(f) ==
    CASE f.method \in {"Debug", "Trace"} ->
           [fn |-> "print", additionalContext |-> <<>>, arg |-> f.arg]
      [] f.method \in {"Debugf", "Tracef"} ->
           [fn |-> "printf", additionalContext |-> <<>>, arg |-> NilValue]
      [] f.method \in {"Debugw", "Tracew"} ->
           [fn |-> "print", additionalContext |-> f.kv, arg |-> StringValue(Plain(f.message))]
      [] OTHER ->
           [fn |-> "print", additionalContext |-> f.kv, arg |-> f.err]

\* what print / printf put in the buffer: nothing for a nil operand of
\* print, else the lines, each with severity and line prefix, and the context
PrintedLine(f) ==
    LET sev == MethodSeverity(f.method)
        x == PrintOperands(f)
        lines == IF x.fn = "printf"
                 THEN PrintfLines(f.l, x.additionalContext, sev, x.arg, f.message, f.args, f.oc)
                 ELSE PrintLines(f.l, x.additionalContext, sev, x.arg, f.oc)
    IN IF lines = <<>> THEN Nil
       ELSE [severity |-> sev, prefix |-> f.l.prefix, msg |-> lines[1].text,
             ctx |-> PrintContext(x.additionalContext, x.arg, f.oc),
             lines |-> lines, text |-> LinesText(lines)]

\* buf.String(): the bytes handed to the writer
BufferString(line) == IF line = Nil THEN "" ELSE line.text

\* the error a failing Write returns
WriteError(w) == [kind |-> "error", origin |-> "writer", id |-> w, text |-> "file already closed"]

\* what errorOnLogging is handed when the Write fails: print hands it the
\* Write's error, printf hands it its own err operand (nil for Debugf)
UnableToLog(f) == IF PrintOperands(f).fn = "printf" THEN NilValue ELSE WriteError(f.out)

\* where a call goes after its Write has returned
AfterWrite(method) == IF method \in DebugOps \cup TraceOps THEN "done" ELSE "report"

\* the buffer after the call wrote its bytes to it: a bytes.Buffer that is
\* too small grows, and keeps its array when it is reset; the model counts
\* the array in whole blocks of 64 bytes
Grown(buf, bytes) ==
    [buf EXCEPT !.cap = IF Len(bytes) > buf.cap THEN 64 * ((Len(bytes) + 63) \div 64)
                        ELSE buf.cap]

\* bufferPool.Put(buf): the buffer is reset and sent on the pool's channel,
\* or dropped when the channel is full
BufferPut(pool, buf) == IF Len(pool) < bufferPoolSize THEN Append(pool, buf) ELSE pool

\* a Fatal that calls the handler without printing the message first
WriteSkippedForFatal(t) ==
    /\ halted = "no"
    /\ fr[t].pc = "write"
    /\ fr' = [fr EXCEPT ![t].line = IF fr[t].method \in FatalOps THEN Nil
                                    ELSE PrintedLine(fr[t]),
                        ![t].wrote = fr[t].method \notin FatalOps,
                        ![t].buf = Nil,
                        ![t].pc = AfterWrite(fr[t].method)]
    /\ bufferPool' = BufferPut(bufferPool, fr[t].buf)
    /\ UNCHANGED <<cells, facades, halted, hist, apart>>

\* print / printf from the Get on: the event is formatted in the buffer and
\* handed to the writer in one Write; a failing Write is reported on
\* os.Stderr by errorOnLogging; the deferred Put gives the buffer back
Write(t) ==
    /\ halted = "no"
    /\ fr[t].pc = "write"
    /\ fr' = [fr EXCEPT ![t].line = PrintedLine(fr[t]),
                        ![t].wrote = TRUE,
                        ![t].writes = @ + 1,
                        ![t].unableToLog =
                            IF fr[t].out \in FailingWriters
                            THEN Append(fr[t].unableToLog, Sprint(UnableToLog(fr[t])))
                            ELSE fr[t].unableToLog,
                        ![t].buf = Nil,
                        ![t].pc = AfterWrite(fr[t].method)]
    /\ bufferPool' = BufferPut(bufferPool, Grown(fr[t].buf, BufferString(PrintedLine(fr[t]))))
    /\ UNCHANGED <<cells, facades, halted, hist, apart>>

\* a Fatal that hands errorSkipFrames the severity ERROR
CallSeverityAlwaysError(method) == ERROR

\* the severity errorSkipFrames was called with
CallSeverity(method) == IF method \in FatalOps THEN FATAL ELSE ERROR

\* a Fatal that returns the error instead of handing it to fatal()
AfterReportNoFatal(method) == "done"

\* where a call goes after the reporters ran
AfterReport(method) == IF method \in FatalOps THEN "fatal" ELSE "done"

\* the registered reporters are called with the error and the severity, in
\* registration order, before errorSkipFrames returns the error.  golog.go's
\* errorSkipFrames returns err right after print: RegisterReporter and this
\* step are not in that file, and follow the specification's "observer
\* callback invoked synchronously on every Error/Fatal event" and TestReport;
\* with no reporter registered the step is the `return err` of golog.go:321
Report(t) ==
    /\ halted = "no"
    /\ fr[t].pc = "report"
    /\ fr' = [fr EXCEPT ![t].reports =
                            [i \in 1..Len(reporters) |->
                               [reporter |-> reporters[i], err |-> fr[t].err,
                                severity |-> CallSeverity(fr[t].method)]],
                        ![t].ret = IF fr[t].method \in FatalOps THEN Nil ELSE fr[t].err,
                        ![t].pc = AfterReport(fr[t].method)]
    /\ UNCHANGED <<cells, facades, halted, hist, bufferPool, apart>>

\* fatal(err): fn := onFatal.Load().(func(err error)); fn(err).  The default
\* function ends the process with status 1, a function given to OnFatal
\* returns
Fatal(t) ==
    /\ halted = "no"
    /\ fr[t].pc = "fatal"
    /\ fr' = [fr EXCEPT ![t].fatals =
                            Append(fr[t].fatals,
                                   [fn |-> onFatal.fn, seq |-> onFatal.seq, err |-> fr[t].err,
                                    afterWrite |-> fr[t].wrote]),
                        ![t].pc = IF onFatal.fn = DefaultHandler THEN "exited" ELSE "done"]
    /\ halted' = IF onFatal.fn = DefaultHandler THEN "exit1" ELSE "no"
    /\ UNCHANGED <<cells, facades, hist, bufferPool, apart>>

(***************************************************************************)
(* The goroutines of a program: each makes calls one after the other, and  *)
(* the calls of different goroutines interleave at their steps.            *)
(***************************************************************************)
ConcValues == {StringValue("x")}
ConcMessages == {<<"m">>}
ConcArgLists == {<<>>}
ConcKvLists == {<<>>}

Step(t) ==
    \/ StoreOuts(t)
    \/ StoreBuilder(t)
    \/ GetBaseLogger(t)
    \/ GetOutputs(t)
    \/ BufferGet(t)
    \/ Write(t)
    \/ Report(t)
    \/ Fatal(t)

Config(t) ==
    \/ CallSetOutputs(t)
    \/ OnFatal(t)
    \/ DefaultOnFatal(t)
    \/ RegisterReporter(t)
    \/ LoggerFor(t)

Next ==
    \/ \E t \in Configurators : Config(t)
    \/ \E t \in Loggers : CallFacade(t, ConcValues, ConcMessages, ConcArgLists, ConcKvLists, {EmptyMap})
    \/ \E t \in Threads : Step(t)

Spec == Init /\ [][Next]_vars

(***************************************************************************)
(* The zap-backed logger of zap.go: zapLogger(prefix) returns a Logger     *)
(* that hands every event to zap and reads none of the cells above.        *)
(***************************************************************************)
ZapOps == {"Error", "Errorf"}

\* a method of the Logger zapLogger returned is called
CallZapper(t, V, M, AL) ==
    /\ Free(t)
    /\ \E p \in Prefixes, op \in ZapOps :
         \E x \in Operands(op, V, M, AL, {<<>>}) :
           fr' = [fr EXCEPT ![t] =
                    [IdleFrame EXCEPT !.op = op, !.pc = "zap", !.logger = "zapper",
                                      !.prefix = p, !.method = op, !.arg = x.arg,
                                      !.message = x.message, !.args = x.args]]
    /\ UNCHANGED <<cells, facades, halted, hist, bufferPool, apart>>

\* zapper.Error: msg := fmt.Sprintf("%v", arg); z.z.Error(msg); return errors.New(msg)
ZapperError(arg) ==
    [logged |-> Sprint(arg), ret |-> StdErrorsNew(Sprint(arg))]

\* zapper.Errorf: msg := fmt.Sprintf(message, args...); z.z.Errorf(message, args);
\* return errors.New(msg).  zap is handed args as one operand
ZapperErrorf(message, args) ==
    [logged |-> Sprintf(message, <<SliceValue(args)>>),
     ret |-> StdErrorsNew(Sprintf(message, args))]

\* the zapper method runs: the event goes to zap, the error is returned
ZapLog(t) ==
    /\ halted = "no"
    /\ fr[t].pc = "zap"
    /\ LET r == IF fr[t].method = "Error" THEN ZapperError(fr[t].arg)
                ELSE ZapperErrorf(fr[t].message, fr[t].args)
       IN fr' = [fr EXCEPT ![t].line = [severity |-> "error", prefix |-> fr[t].prefix,
                                        msg |-> r.logged, ctx |-> <<>>],
                           ![t].wrote = TRUE,
                           ![t].ret = r.ret,
                           ![t].pc = "done"]
    /\ UNCHANGED <<cells, facades, halted, hist, bufferPool, apart>>

(***************************************************************************)
(* One goroutine making every call, one after the other, with every        *)
(* operand of ArgValues, Messages, ArgLists and KvLists.                   *)
(***************************************************************************)
Solo == "main"

NextSeq ==
    \/ Config(Solo)
    \/ CallFacade(Solo, ArgValues, Messages, ArgLists, KvLists, {EmptyMap})
    \/ CallZapper(Solo, ArgValues, Messages, ArgLists)
    \/ Step(Solo)
    \/ ZapLog(Solo)

SpecSeq == Init /\ [][NextSeq]_vars

(***************************************************************************)
(* Tracing: the TRACE environment variable, the Trace methods and the      *)
(* trace writer, whose reader is one more goroutine.                       *)
(***************************************************************************)
\* values of the TRACE environment variable; "" is the variable unset
TraceSettings == {"", "false", "true", "other", "other, myprefix"}
\* what a caller writes to the trace writer in one Write
TraceChunks == {"Gravy\n", "a\nb\n", "x"}
\* Writes made on an open trace writer in one run
MaxTraceWrites == 2
\* reads of the closed pipe the run follows
MaxClosedReads == 2

\* os.Setenv("TRACE", v)
Setenv(t) ==
    /\ Free(t)
    /\ \E v \in TraceSettings : v # traceEnv /\ traceEnv' = v
    /\ fr' = [fr EXCEPT ![t] = [IdleFrame EXCEPT !.op = "Setenv", !.pc = "done"]]
    /\ UNCHANGED <<cells, facades, halted, hist, bufferPool, traceOut, zap, capture, writerAndOutput>>

\* Trace, Tracef or Tracew of a facade is called: like the other level
\* methods it hands the call to a base logger made by the current builder
CallTrace(t, V, M, AL, KL) ==
    /\ Free(t)
    /\ \E p \in Prefixes, op \in TraceOps :
         /\ facades[p] # Nil
         /\ \E x \in Operands(op, V, M, AL, KL) :
              fr' = [fr EXCEPT ![t] =
                       [IdleFrame EXCEPT !.op = op, !.pc = "getBaseLogger", !.logger = "facade",
                                         !.prefix = facades[p].prefix,
                                         !.traceOn = facades[p].traceOn,
                                         !.arg = x.arg, !.message = x.message,
                                         !.args = x.args, !.kv = x.kv,
                                         !.startReturned = returned]]
    /\ UNCHANGED <<cells, facades, halted, hist, bufferPool, apart>>

\* the error of a Write on a closed pipe
ErrClosedPipe == [kind |-> "error", origin |-> "io", id |-> "ErrClosedPipe",
                  text |-> "io: read/write on closed pipe"]

\* a Write on the logger's trace writer: ioutil.Discard drops the bytes; the
\* pipe holds them until the reader has read them, and refuses them once
\* closed
WriteTraceOut(t) ==
    /\ Free(t)
    /\ traceOut.kind # "none"
    /\ \E p \in TraceChunks :
         IF traceOut.kind = "discard"
         THEN /\ fr' = [fr EXCEPT ![t] = [IdleFrame EXCEPT !.op = "TraceOut.Write", !.pc = "done",
                                                           !.arg = StringValue(p),
                                                           !.out = "discard",
                                                           !.ret = NilValue]]
              /\ UNCHANGED traceOut
         ELSE IF traceOut.closed
         THEN /\ fr' = [fr EXCEPT ![t] = [IdleFrame EXCEPT !.op = "TraceOut.Write", !.pc = "done",
                                                           !.arg = StringValue(p),
                                                           !.out = "pipe",
                                                           !.ret = ErrClosedPipe]]
              /\ UNCHANGED traceOut
         ELSE /\ traceOut.writes < MaxTraceWrites
              /\ fr' = [fr EXCEPT ![t] = [IdleFrame EXCEPT !.op = "TraceOut.Write",
                                                           !.pc = "pipeWrite",
                                                           !.arg = StringValue(p),
                                                           !.out = "pipe"]]
              /\ traceOut' = [traceOut EXCEPT !.inflight = p, !.writes = @ + 1]
    /\ UNCHANGED <<cells, facades, halted, hist, bufferPool, traceEnv, zap, capture, writerAndOutput>>

\* the Write on the pipe returns: the reader has read its bytes, or the pipe
\* was closed
PipeWritten(t) ==
    /\ halted = "no"
    /\ fr[t].pc = "pipeWrite"
    /\ traceOut.inflight = "" \/ traceOut.closed
    /\ fr' = [fr EXCEPT ![t].pc = "done",
                        ![t].wrote = traceOut.inflight = "",
                        ![t].ret = IF traceOut.inflight = "" THEN NilValue ELSE ErrClosedPipe]
    /\ UNCHANGED <<cells, facades, halted, hist, bufferPool, apart>>

\* tw.(io.Closer).Close() on the pipe's writing end
CloseTraceOut(t) ==
    /\ Free(t)
    /\ traceOut.kind = "pipe"
    /\ ~traceOut.closed
    /\ traceOut' = [traceOut EXCEPT !.closed = TRUE]
    /\ fr' = [fr EXCEPT ![t] = [IdleFrame EXCEPT !.op = "TraceOut.Close", !.pc = "done"]]
    /\ UNCHANGED <<cells, facades, halted, hist, bufferPool, traceEnv, zap, capture, writerAndOutput>>

\* the place of the first '\n' in str, 0 if there is none
RECURSIVE IndexNewline(_, _)
IndexNewline(str, i) ==
    IF i > Len(str) THEN 0
    ELSE IF SubSeq(str, i, i) = "\n" THEN i ELSE IndexNewline(str, i + 1)

\* what the trace log is expected to end with once the stream is closed
ClosureReport == "TraceWriter closed due to unexpected error: EOF"

\* one turn of the reader goroutine's loop, for { line, err :=
\* br.ReadString('\n'); if err == nil { l.Trace(line[:len(line)-1]) } }:
\* a buffered line is handed to l.Trace without its newline; else the bytes
\* of a pending Write are read from the pipe; else, the pipe being closed,
\* ReadString returns what it holds with io.EOF and the loop goes on
TraceReader ==
    /\ halted = "no"
    /\ traceOut.kind = "pipe"
    /\ LET nl == IndexNewline(traceOut.buffered, 1) IN
       IF nl > 0
       THEN traceOut' = [traceOut EXCEPT
                           !.traced = Append(@, SubSeq(traceOut.buffered, 1, nl - 1)),
                           !.buffered = SubSeq(@, nl + 1, Len(@))]
       ELSE IF traceOut.inflight # "" /\ ~traceOut.closed
       THEN traceOut' = [traceOut EXCEPT !.buffered = @ \o traceOut.inflight,
                                         !.inflight = ""]
       ELSE /\ traceOut.closed
            /\ traceOut.eofReads < MaxClosedReads
            /\ traceOut' = [traceOut EXCEPT !.buffered = "", !.eofReads = @ + 1]
    /\ UNCHANGED <<cells, facades, halted, hist, bufferPool, traceEnv, zap, capture, writerAndOutput, fr>>

\* the steps of a Trace call
TraceStep(t) ==
    \/ StoreOuts(t)
    \/ StoreBuilder(t)
    \/ GetBaseLogger(t)
    \/ GetOutputs(t)
    \/ BufferGet(t)
    \/ Write(t)
    \/ PipeWritten(t)

TraceValues == {NilValue, StringValue("x")}
TraceMessages == {<<"m ", "%v">>}
TraceArgLists == {<<StringValue("x")>>}
TraceKvLists == {<<StringValue("k"), StringValue("v")>>}

NextTrace ==
    \/ Setenv(Solo)
    \/ CallSetOutputs(Solo)
    \/ LoggerFor(Solo)
    \/ CallTrace(Solo, TraceValues, TraceMessages, TraceArgLists, TraceKvLists)
    \/ WriteTraceOut(Solo)
    \/ CloseTraceOut(Solo)
    \/ TraceStep(Solo)
    \/ TraceReader

SpecTrace == Init /\ [][NextTrace]_vars

(***************************************************************************)
(* One goroutine logging events with key/value pairs, under an operation   *)
(* context that holds pairs of its own or none.                            *)
(***************************************************************************)
CtxValues == {StringValue("x")}
CtxMessages == {<<"m">>}
CtxKvLists ==
    {<<>>,
     <<StringValue("k")>>,
     <<StringValue("k"), StringValue("v")>>,
     <<StringValue("b"), IntValue(1), StringValue("a"), IntValue(2)>>,
     <<StringValue("a"), IntValue(2), StringValue("b"), IntValue(1)>>,
     <<StringValue("a"), IntValue(1), StringValue("a"), IntValue(2)>>,
     <<StringValue("op"), IntValue(1), StringValue("ab"), IntValue(2),
       StringValue("B"), NilValue>>,
     <<StringValue("ab"), IntValue(2), StringValue("a"), StringValue("x"),
       StringValue("B"), IntValue(1), StringValue("a"), StringValue("")>>}
\* the pairs of the goroutine's operation context
CtxOcs == {EmptyMap, [op |-> StringValue("name"), a |-> StringValue("z")]}

NextCtx ==
    \/ Config(Solo)
    \/ CallFacade(Solo, CtxValues, CtxMessages, {<<>>}, CtxKvLists, CtxOcs)
    \/ Step(Solo)

SpecCtx == Init /\ [][NextCtx]_vars

(***************************************************************************)
(* Two goroutines logging at the same time through the same facade, with   *)
(* short events and events longer than maxBufferSize.                      *)
(***************************************************************************)
LongText == "0123456789012345678901234567890123456789012"
PoolValues == {StringValue("x"), StringValue(LongText)}

\* the state after main called SetOutputs(buf, buf), OnFatal(h1) and
\* LoggerFor("myprefix"), TRACE being unset
InitPool ==
    /\ loggerBuilder = [kind |-> "builder", makes |-> "streamLogger", cfg |-> 1]
    /\ outs = [kind |-> "outputs", ErrorOut |-> "buf", DebugOut |-> "buf", cfg |-> 1]
    /\ onFatal = [kind |-> "handler", fn |-> "h1", seq |-> 1]
    /\ reporters = <<>>
    /\ facades = [p \in Prefixes |->
                    [kind |-> "facade", prefix |-> p, born |-> 1, traceOn |-> FALSE]]
    /\ halted = "no"
    /\ fr = [t \in Threads |->
                IF t \in Configurators
                THEN [IdleFrame EXCEPT !.op = "LoggerFor", !.pc = "done"]
                ELSE IdleFrame]
    /\ cfgSeq = 1
    /\ returned = 1
    /\ bufferPool = <<>>
    /\ traceEnv = ""
    /\ traceOut = Discard
    /\ zapConfig = ProductionConfig
    /\ zlog = Nil
    /\ once = "idle"
    /\ capture = Nil
    /\ testLogWriter = Nil
    /\ textOutput = Nil

\* the steps of a log call
LogStep(t) ==
    \/ GetBaseLogger(t)
    \/ GetOutputs(t)
    \/ BufferGet(t)
    \/ Write(t)
    \/ Report(t)
    \/ Fatal(t)

NextPool ==
    \/ \E t \in Threads : CallFacade(t, PoolValues, ConcMessages, ConcArgLists, ConcKvLists,
                                     {EmptyMap})
    \/ \E t \in Threads : LogStep(t)

SpecPool == InitPool /\ [][NextPool]_vars

(***************************************************************************)
(* A test that captures the log while another goroutine logs.              *)
(***************************************************************************)
NextCapture ==
    \/ \E t \in Configurators :
         \/ CallSetOutputs(t)
         \/ LoggerFor(t)
         \/ Capture(t)
         \/ Stop(t)
         \/ StoreOuts(t)
         \/ StoreBuilder(t)
    \/ \E t \in Loggers : CallFacade(t, ConcValues, ConcMessages, ConcArgLists, ConcKvLists,
                                     {EmptyMap})
    \/ \E t \in Loggers : LogStep(t)

SpecCapture == Init /\ [][NextCapture]_vars

(***************************************************************************)
(* One goroutine logging values with the multi-line capability.            *)
(***************************************************************************)
\* a value whose MultiLinePrinter returns a function that writes the lines
\* of calls, one a call, and returns their more
MultiLineValue(text, calls) == [kind |-> "multiline", text |-> text, mlp |-> calls]
\* an error with the multi-line capability
MultiLineError(id, text, calls) ==
    [kind |-> "error", origin |-> "caller", id |-> id, text |-> text, mlp |-> calls]

MultiValues ==
    {StringValue("x"),
     MultiLineValue("l1", <<[line |-> "l1", more |-> TRUE], [line |-> "l2", more |-> TRUE],
                            [line |-> "l3", more |-> FALSE]>>),
     MultiLineValue("a", <<[line |-> "a", more |-> TRUE], [line |-> "", more |-> FALSE],
                           [line |-> "never", more |-> TRUE],
                           [line |-> "never", more |-> FALSE]>>),
     MultiLineValue("only", <<[line |-> "only", more |-> FALSE],
                              [line |-> "never", more |-> FALSE]>>),
     MultiLineError("e1", "Hello", <<[line |-> "Hello", more |-> TRUE],
                                     [line |-> "  at f (f.go:1)", more |-> TRUE],
                                     [line |-> "Caused by: world", more |-> FALSE]>>)}
MultiMessages == {<<"m">>}
MultiKvLists == {<<>>, <<StringValue("k"), StringValue("v")>>}

NextMulti ==
    \/ Config(Solo)
    \/ CallFacade(Solo, MultiValues, MultiMessages, {<<>>}, MultiKvLists, CtxOcs)
    \/ Step(Solo)

SpecMulti == Init /\ [][NextMulti]_vars

(***************************************************************************)
(* The zap logger (zap.go).                                                *)
(***************************************************************************)
ZapConfigs == {ProductionConfig, DevelopmentConfig}
\* what a read of zapConfig may see while another goroutine assigns it
TornConfig == "torn"
ZapNames == {"tester", "myprefix"}

\* SetZapConfig(config) is called and the assignment zapConfig = config
\* begins: it is a plain copy of a struct, not atomic
SetZapConfig(t) ==
    /\ Free(t)
    /\ \E config \in ZapConfigs :
         /\ fr' = [fr EXCEPT ![t] = [IdleFrame EXCEPT !.op = "SetZapConfig", !.pc = "store",
                                       !.config = config]]
         /\ zapConfig' = IF config = zapConfig THEN zapConfig ELSE TornConfig
    /\ UNCHANGED <<cells, facades, halted, hist, bufferPool, traceEnv, traceOut, zlog, once,
                   capture, writerAndOutput>>

\* the assignment is complete and SetZapConfig returns
StoreZapConfig(t) ==
    /\ At(t, "SetZapConfig", "store")
    /\ zapConfig' = fr[t].config
    /\ fr' = [fr EXCEPT ![t].pc = "done"]
    /\ UNCHANGED <<cells, facades, halted, hist, bufferPool, traceEnv, traceOut, zlog, once,
                   capture, writerAndOutput>>

\* ZapLogger(prefix) is called; the frame's config is the zapConfig of that
\* moment, kept for the properties only
ZapLogger(t) ==
    /\ Free(t)
    /\ \E prefix \in ZapNames :
         fr' = [fr EXCEPT ![t] = [IdleFrame EXCEPT !.op = "ZapLogger", !.pc = "once",
                                    !.prefix = prefix, !.config = zapConfig]]
    /\ UNCHANGED <<cells, facades, halted, hist, bufferPool, apart>>

\* a once that lets every caller run the function
OnceDoEveryCall(t) ==
    /\ At(t, "ZapLogger", "once")
    /\ once # "running"
    /\ once' = "running"
    /\ fr' = [fr EXCEPT ![t].pc = "build"]
    /\ UNCHANGED <<cells, facades, halted, hist, bufferPool, traceEnv, traceOut, zapConfig,
                   zlog, capture, writerAndOutput>>

\* once.Do(f): the first caller runs f, a caller that comes while f runs
\* waits for it, a caller that comes after it does not run f
OnceDo(t) ==
    /\ At(t, "ZapLogger", "once")
    /\ once # "running"
    /\ IF once = "idle"
       THEN /\ once' = "running"
            /\ fr' = [fr EXCEPT ![t].pc = "build"]
       ELSE /\ fr' = [fr EXCEPT ![t].pc = "named"]
            /\ UNCHANGED once
    /\ UNCHANGED <<cells, facades, halted, hist, bufferPool, traceEnv, traceOut, zapConfig,
                   zlog, capture, writerAndOutput>>

\* baseLog, _ := zapConfig.Build(); zlog = baseLog.Sugar(), and once.Do
\* returns; built counts the builds, for the properties only
Build(t) ==
    /\ At(t, "ZapLogger", "build")
    /\ zlog' = [kind |-> "sugared", config |-> zapConfig,
                built |-> IF zlog = Nil THEN 1 ELSE zlog.built + 1]
    /\ once' = "done"
    /\ fr' = [fr EXCEPT ![t].pc = "named"]
    /\ UNCHANGED <<cells, facades, halted, hist, bufferPool, traceEnv, traceOut, zapConfig,
                   capture, writerAndOutput>>

\* return zlog.Named(prefix)
Named(t) ==
    /\ At(t, "ZapLogger", "named")
    /\ fr' = [fr EXCEPT ![t].pc = "done",
                        ![t].ret = [kind |-> "named", name |-> fr[t].prefix,
                                    config |-> zlog.config, built |-> zlog.built]]
    /\ UNCHANGED <<cells, facades, halted, hist, bufferPool, apart>>

NextZap ==
    \/ \E t \in Configurators : SetZapConfig(t)
    \/ \E t \in Configurators : StoreZapConfig(t)
    \/ \E t \in Threads : ZapLogger(t)
    \/ \E t \in Threads : OnceDo(t)
    \/ \E t \in Threads : Build(t)
    \/ \E t \in Threads : Named(t)

SpecZap == Init /\ [][NextZap]_vars

(***************************************************************************)
(* testlog: the capture writers that can be stopped.  One hands the bytes  *)
(* to a goroutine over a channel, the other calls t.Log under a read lock. *)
(***************************************************************************)
Variants == {"channel", "rwmutex"}
WriteBytes == {"a\n", "b\n"}
MaxWrites == 3

\* &testLogWriter{T: t, ch: make(chan []byte)} with go w.run(), or
\* &testLogWriter{T: t}; logged is what t.Log was called with, and late
\* tells whether stop() had returned by then, for the properties only
NewTestLogWriter(variant) ==
    [kind |-> "testLogWriter", variant |-> variant,
     mu |-> [writer |-> "none", readers |-> {}, pending |-> FALSE],
     stopped |-> FALSE,
     ch |-> IF variant = "channel" THEN "open" ELSE "none",
     run |-> [pc |-> IF variant = "channel" THEN "recv" ELSE "none", p |-> ""],
     logged |-> <<>>, stderr |-> <<>>,
     stopCalled |-> FALSE, stopReturned |-> FALSE, calls |-> 0]

\* the state after SetOutputs(buf, buf), LoggerFor and this Capture(t): the
\* outputs are the writer, and the stop function holds the outputs of before
InitWriter ==
    /\ loggerBuilder = [kind |-> "builder", makes |-> "streamLogger", cfg |-> 2]
    /\ outs = [kind |-> "outputs", ErrorOut |-> TestLogWriter, DebugOut |-> TestLogWriter,
               cfg |-> 2]
    /\ onFatal = [kind |-> "handler", fn |-> "default", seq |-> 0]
    /\ reporters = <<>>
    /\ facades = [p \in Prefixes |->
                    [kind |-> "facade", prefix |-> p, born |-> 1, traceOn |-> FALSE]]
    /\ halted = "no"
    /\ fr = [t \in Threads |->
                IF t \in Configurators
                THEN [IdleFrame EXCEPT !.op = "SetOutputs", !.pc = "done", !.cfg = 2,
                                       !.errorOut = TestLogWriter, !.debugOut = TestLogWriter]
                ELSE IdleFrame]
    /\ cfgSeq = 2
    /\ returned = 2
    /\ bufferPool = <<>>
    /\ traceEnv = ""
    /\ traceOut = Discard
    /\ zapConfig = ProductionConfig
    /\ zlog = Nil
    /\ once = "idle"
    /\ capture = [kind |-> "capture",
                  prev |-> [kind |-> "outputs", ErrorOut |-> "buf", DebugOut |-> "buf",
                            cfg |-> 1],
                  cfg |-> 2, stopped |-> FALSE]
    /\ \E variant \in Variants : testLogWriter = NewTestLogWriter(variant)
    /\ textOutput = Nil

\* what a call on the writer leaves alone
besideWriter == <<cells, facades, halted, hist, bufferPool, traceEnv, traceOut, zap, capture,
                  textOutput>>

\* w.Write(p) is called, by a log call that loaded the outputs of the capture
CallWrite(t) ==
    /\ Free(t)
    /\ testLogWriter.calls < MaxWrites
    /\ \E p \in WriteBytes :
         fr' = [fr EXCEPT ![t] = [IdleFrame EXCEPT !.op = "Write", !.pc = "lock", !.p = p]]
    /\ testLogWriter' = [testLogWriter EXCEPT !.calls = @ + 1]
    /\ UNCHANGED besideWriter

\* w.mu.Lock() of the channel writer's Write, w.mu.RLock() of the other's: a
\* read lock waits while a Lock holds or waits for the mutex
WriteLock(t) ==
    /\ At(t, "Write", "lock")
    /\ testLogWriter.mu.writer = "none"
    /\ IF testLogWriter.variant = "channel"
       THEN testLogWriter' = [testLogWriter EXCEPT !.mu.writer = t]
       ELSE /\ ~testLogWriter.mu.pending
            /\ testLogWriter' = [testLogWriter EXCEPT !.mu.readers = @ \cup {t}]
    /\ fr' = [fr EXCEPT ![t].pc = "check"]
    /\ UNCHANGED besideWriter

\* if !w.stopped { w.ch <- p ... } return 0, errors.New(...) and
\* if w.stopped { os.Stderr.Write ... } w.Log(string(p))
WriteCheck(t) ==
    /\ At(t, "Write", "check")
    /\ fr' = [fr EXCEPT ![t].pc =
                IF testLogWriter.variant = "channel"
                THEN IF testLogWriter.stopped THEN "unlock" ELSE "send"
                ELSE IF testLogWriter.stopped THEN "stderr" ELSE "log",
                        ![t].ret =
                IF testLogWriter.variant = "channel" /\ testLogWriter.stopped
                THEN [kind |-> "error", origin |-> "writer", id |-> TestLogWriter,
                      text |-> "writing to stopped testlog writer"]
                ELSE NilValue]
    /\ UNCHANGED <<testLogWriter, besideWriter>>

\* w.ch <- p on the unbuffered channel: it panics on a closed channel and
\* else completes when run receives
Send(t) ==
    /\ At(t, "Write", "send")
    /\ IF testLogWriter.ch = "closed"
       THEN /\ halted' = "panic"
            /\ fr' = [fr EXCEPT ![t].pc = "panicked"]
            /\ UNCHANGED testLogWriter
       ELSE /\ testLogWriter.run.pc = "recv"
            /\ testLogWriter' = [testLogWriter EXCEPT !.run = [pc |-> "log", p |-> fr[t].p]]
            /\ fr' = [fr EXCEPT ![t].pc = "unlock"]
            /\ UNCHANGED halted
    /\ UNCHANGED <<cells, facades, hist, bufferPool, traceEnv, traceOut, zap, capture,
                   textOutput>>

\* w.Log(string(p)) inside Write, under the read lock
WriteLog(t) ==
    /\ At(t, "Write", "log")
    /\ testLogWriter' = [testLogWriter EXCEPT
                           !.logged = Append(@, [p |-> fr[t].p,
                                                 late |-> testLogWriter.stopReturned])]
    /\ fr' = [fr EXCEPT ![t].pc = "unlock"]
    /\ UNCHANGED besideWriter

\* os.Stderr.Write(append([]byte("(logged after test capture stopped) "), p...))
WriteStderr(t) ==
    /\ At(t, "Write", "stderr")
    /\ testLogWriter' = [testLogWriter EXCEPT
                           !.stderr = Append(@, "(logged after test capture stopped) "
                                                  \o fr[t].p)]
    /\ fr' = [fr EXCEPT ![t].pc = "unlock"]
    /\ UNCHANGED besideWriter

\* the deferred w.mu.Unlock() or w.mu.RUnlock(), and Write returns
WriteUnlock(t) ==
    /\ At(t, "Write", "unlock")
    /\ testLogWriter' = IF testLogWriter.variant = "channel"
                        THEN [testLogWriter EXCEPT !.mu.writer = "none"]
                        ELSE [testLogWriter EXCEPT !.mu.readers = @ \ {t}]
    /\ fr' = [fr EXCEPT ![t].pc = "done"]
    /\ UNCHANGED besideWriter

\* run's `for p := range w.ch` finds the channel closed and run returns
RunReturns ==
    /\ halted = "no"
    /\ testLogWriter.run.pc = "recv"
    /\ testLogWriter.ch = "closed"
    /\ testLogWriter' = [testLogWriter EXCEPT !.run.pc = "returned"]
    /\ UNCHANGED <<besideWriter, fr>>

\* run's w.Log((string)(p)) for the bytes it received
RunLog ==
    /\ halted = "no"
    /\ testLogWriter.run.pc = "log"
    /\ testLogWriter' = [testLogWriter EXCEPT
                           !.logged = Append(@, [p |-> testLogWriter.run.p,
                                                 late |-> testLogWriter.stopReturned]),
                           !.run = [pc |-> "recv", p |-> ""]]
    /\ UNCHANGED <<besideWriter, fr>>

\* the function Capture returned is called: reset() stores back the outputs
\* of before, then w.stop() is entered
CallStop(t) ==
    /\ Free(t)
    /\ ~testLogWriter.stopCalled
    /\ outs' = capture.prev
    /\ capture' = [capture EXCEPT !.stopped = TRUE]
    /\ testLogWriter' = [testLogWriter EXCEPT !.stopCalled = TRUE]
    /\ fr' = [fr EXCEPT ![t] = [IdleFrame EXCEPT !.op = "stop", !.pc = "lock"]]
    /\ UNCHANGED <<loggerBuilder, onFatal, reporters, facades, halted, hist, bufferPool,
                   traceEnv, traceOut, zap, textOutput>>

\* w.mu.Lock() of stop: on the RWMutex it first keeps new readers out, then
\* waits for the readers that hold it
StopLock(t) ==
    /\ At(t, "stop", "lock")
    /\ testLogWriter.mu.writer = "none"
    /\ IF testLogWriter.variant = "rwmutex" /\ ~testLogWriter.mu.pending
       THEN /\ testLogWriter' = [testLogWriter EXCEPT !.mu.pending = TRUE]
            /\ UNCHANGED fr
       ELSE /\ testLogWriter.mu.readers = {}
            /\ testLogWriter' = [testLogWriter EXCEPT !.mu.writer = t, !.mu.pending = FALSE]
            /\ fr' = [fr EXCEPT ![t].pc = "store"]
    /\ UNCHANGED besideWriter

\* w.stopped = true
StopStore(t) ==
    /\ At(t, "stop", "store")
    /\ testLogWriter' = [testLogWriter EXCEPT !.stopped = TRUE]
    /\ fr' = [fr EXCEPT ![t].pc = IF testLogWriter.variant = "channel" THEN "close"
                                  ELSE "unlock"]
    /\ UNCHANGED besideWriter

\* close(w.ch)
StopClose(t) ==
    /\ At(t, "stop", "close")
    /\ testLogWriter' = [testLogWriter EXCEPT !.ch = "closed"]
    /\ fr' = [fr EXCEPT ![t].pc = "unlock"]
    /\ UNCHANGED besideWriter

\* w.mu.Unlock(), and stop() returns
StopUnlock(t) ==
    /\ At(t, "stop", "unlock")
    /\ testLogWriter' = [testLogWriter EXCEPT !.mu.writer = "none", !.stopReturned = TRUE]
    /\ fr' = [fr EXCEPT ![t].pc = "done"]
    /\ UNCHANGED besideWriter

NextWriter ==
    \/ \E t \in Threads : CallWrite(t)
    \/ \E t \in Threads : WriteLock(t)
    \/ \E t \in Threads : WriteCheck(t)
    \/ \E t \in Threads : Send(t)
    \/ \E t \in Threads : WriteLog(t)
    \/ \E t \in Threads : WriteStderr(t)
    \/ \E t \in Threads : WriteUnlock(t)
    \/ RunReturns
    \/ RunLog
    \/ \E t \in Configurators : CallStop(t)
    \/ \E t \in Configurators : StopLock(t)
    \/ \E t \in Configurators : StopStore(t)
    \/ \E t \in Configurators : StopClose(t)
    \/ \E t \in Configurators : StopUnlock(t)

SpecWriter == InitWriter /\ [][NextWriter]_vars

(***************************************************************************)
(* The text output (TextOutput): one textOutput, with its one pc slice,    *)
(* serves the calls of every goroutine.                                    *)
(***************************************************************************)
\* the places in the application that log
Sites == {"a.go:1", "b.go:2"}
\* the length of the pc slice: the frames of a call's stack the model keeps
StackDepth == 3
OutputOps == {"Output.Debug", "Output.Error"}
OutputArgs == {StringValue("x")}

\* what runtime.Callers(skipFrames, pc) finds for a call made at site: the
\* calling function, its caller, and the runtime's frame under them
Callers(site) ==
    <<[fn |-> "app.f", site |-> site],
      [fn |-> "app.main", site |-> site],
      [fn |-> "runtime.goexit", site |-> "asm.s:1"]>>

\* TextOutput(errorWriter, debugWriter): pc: make([]uintptr, 10), all zero
NewTextOutput(errorWriter, debugWriter) ==
    [kind |-> "textOutput", E |-> errorWriter, D |-> debugWriter,
     pc |-> [i \in 1..StackDepth |-> Nil]]

\* the state after TextOutput(e, buf)
InitOutput ==
    /\ loggerBuilder = Nil
    /\ outs = Nil
    /\ onFatal = [kind |-> "handler", fn |-> "default", seq |-> 0]
    /\ reporters = <<>>
    /\ facades = [p \in Prefixes |-> Nil]
    /\ halted = "no"
    /\ fr = [t \in Threads |-> IdleFrame]
    /\ cfgSeq = 0
    /\ returned = 0
    /\ bufferPool = <<>>
    /\ traceEnv = ""
    /\ traceOut = NoTraceWriter
    /\ zapConfig = ProductionConfig
    /\ zlog = Nil
    /\ once = "idle"
    /\ capture = Nil
    /\ testLogWriter = Nil
    /\ \E e \in Writers : textOutput = NewTextOutput(e, "buf")

\* what a call on the output leaves alone
besideOutput == <<cells, facades, halted, hist, traceEnv, traceOut, zap, capture,
                  testLogWriter>>

\* o.Debug or o.Error is called from a site, and print is entered:
\* buf := bufferPool.Get()
CallOutput(t) ==
    /\ Free(t)
    /\ \E op \in OutputOps, site \in Sites, printStack \in BOOLEAN, arg \in OutputArgs :
         fr' = [fr EXCEPT ![t] =
                  [IdleFrame EXCEPT !.op = op, !.pc = "callers", !.logger = "textOutput",
                                    !.prefix = "myprefix: ", !.site = site,
                                    !.printStack = printStack, !.arg = arg,
                                    !.out = IF op = "Output.Error" THEN textOutput.E
                                            ELSE textOutput.D,
                                    !.buf = IF bufferPool = <<>> THEN NewBuffer
                                            ELSE Head(bufferPool),
                                    !.i = 1]]
    /\ bufferPool' = IF bufferPool = <<>> THEN bufferPool ELSE Tail(bufferPool)
    /\ UNCHANGED <<besideOutput, textOutput>>

\* runtime.Callers(skipFrames, o.pc) of linePrefix writes the next element
\* of the output's pc slice
OutputCallers(t) ==
    /\ At(t, fr[t].op, "callers")
    /\ fr[t].op \in OutputOps
    /\ textOutput' = [textOutput EXCEPT !.pc[fr[t].i] = Callers(fr[t].site)[fr[t].i]]
    /\ fr' = [fr EXCEPT ![t].i = @ + 1,
                        ![t].pc = IF fr[t].i = StackDepth THEN "funcForPc" ELSE "callers"]
    /\ UNCHANGED <<besideOutput, bufferPool>>

\* funcForPc := runtime.FuncForPC(o.pc[0])
OutputFuncForPC(t) ==
    /\ At(t, fr[t].op, "funcForPc")
    /\ fr[t].op \in OutputOps
    /\ fr' = [fr EXCEPT ![t].funcForPc = textOutput.pc[1], ![t].pc = "fileLine"]
    /\ UNCHANGED <<besideOutput, bufferPool, textOutput>>

\* file, line := funcForPc.FileLine(o.pc[0] - 1), a second read of o.pc[0],
\* and the prefix is formatted; a pc that is not of the function has no line
\* in it
OutputFileLine(t) ==
    /\ At(t, fr[t].op, "fileLine")
    /\ fr[t].op \in OutputOps
    /\ fr' = [fr EXCEPT ![t].linePrefix =
                            fr[t].prefix
                              \o (IF textOutput.pc[1] = fr[t].funcForPc
                                  THEN textOutput.pc[1].site ELSE "?:0")
                              \o " ",
                        ![t].pc = "write"]
    /\ UNCHANGED <<besideOutput, bufferPool, textOutput>>

\* the lines print puts in the buffer: none for a nil arg, one for a value,
\* one a produced line for a multi-line value; the calls of the model carry
\* no values, so no context is written
OutputLines(f) ==
    LET header == (IF f.op = "Output.Error" THEN "ERROR" ELSE "DEBUG") \o " " \o f.linePrefix
    IN IF f.arg = NilValue THEN <<>>
       ELSE IF ~IsMultiLine(f.arg)
       THEN <<[header |-> header, text |-> Sprint(f.arg), context |-> ""]>>
       ELSE MultiLineLoop(header, f.arg.mlp, "", TRUE)

\* writer.Write(b), with errorOnLogging(err) when it fails; then, without
\* printStack, print returns and its deferred bufferPool.Put(buf) runs
OutputWrite(t) ==
    /\ At(t, fr[t].op, "write")
    /\ fr[t].op \in OutputOps
    /\ fr' = [fr EXCEPT ![t].line = [lines |-> OutputLines(fr[t]),
                                     text |-> LinesText(OutputLines(fr[t]))],
                        ![t].wrote = TRUE,
                        ![t].writes = @ + 1,
                        ![t].unableToLog =
                            IF fr[t].out \in FailingWriters
                            THEN Append(@, Sprint(WriteError(fr[t].out)))
                            ELSE @,
                        ![t].i = 1,
                        ![t].buf = IF fr[t].printStack THEN @ ELSE Nil,
                        ![t].pc = IF fr[t].printStack THEN "printStack" ELSE "done"]
    /\ bufferPool' = IF fr[t].printStack THEN bufferPool
                     ELSE BufferPut(bufferPool,
                                    Grown(fr[t].buf, LinesText(OutputLines(fr[t]))))
    /\ UNCHANGED <<besideOutput, textOutput>>

\* strings.HasPrefix
HasPrefix(str, prefix) ==
    Len(str) >= Len(prefix) /\ SubSeq(str, 1, Len(prefix)) = prefix

\* one turn of printStack's loop over o.pc: it stops at a zero pc, at a
\* frame of the runtime and at the end of the slice, and else adds the
\* frame's line; when it stops, the frames are written to the writer, print
\* returns and its deferred bufferPool.Put(buf) runs
OutputPrintStack(t) ==
    /\ At(t, fr[t].op, "printStack")
    /\ fr[t].op \in OutputOps
    /\ LET last == \/ fr[t].i > StackDepth
                   \/ textOutput.pc[fr[t].i] = Nil
                   \/ HasPrefix(textOutput.pc[fr[t].i].fn, "runtime.")
       IN IF last
          THEN /\ fr' = [fr EXCEPT ![t].writes = @ + 1,
                                   ![t].unableToLog =
                                       IF fr[t].out \in FailingWriters
                                       THEN Append(@, Sprint(WriteError(fr[t].out)))
                                       ELSE @,
                                   ![t].buf = Nil,
                                   ![t].pc = "done"]
               /\ bufferPool' = BufferPut(bufferPool, Grown(fr[t].buf, fr[t].line.text))
          ELSE /\ fr' = [fr EXCEPT ![t].stack = Append(@, textOutput.pc[fr[t].i]),
                                   ![t].i = @ + 1]
               /\ UNCHANGED bufferPool
    /\ UNCHANGED <<besideOutput, textOutput>>

NextOutput ==
    \/ \E t \in Threads : CallOutput(t)
    \/ \E t \in Threads : OutputCallers(t)
    \/ \E t \in Threads : OutputFuncForPC(t)
    \/ \E t \in Threads : OutputFileLine(t)
    \/ \E t \in Threads : OutputWrite(t)
    \/ \E t \in Threads : OutputPrintStack(t)

SpecOutput == InitOutput /\ [][NextOutput]_vars

(***************************************************************************)
(* The claims.                                                             *)
(***************************************************************************)
FacadeCall(t) == fr[t].logger = "facade"

\* C1: a log call made through a facade after a SetOutputs call returned
\* takes its base logger from the builder, and its writer from the outputs,
\* that this SetOutputs call or a later one stored, never from the ones it
\* replaced, whenever the facade was obtained.
C1_LogAfterConfigUsesNewBackend ==
    \A t \in Threads :
        FacadeCall(t) =>
            /\ fr[t].l # Nil => fr[t].l.cfg >= fr[t].startReturned
            /\ fr[t].o # Nil =>
                 /\ fr[t].o.cfg >= fr[t].startReturned
                 /\ fr[t].out \in {fr[t].o.ErrorOut, fr[t].o.DebugOut}

\* a facade obtained before the second SetOutputs call has logged, after
\* that call returned, through the builder and the outputs it stored
C1_Witness ==
    \E t \in Threads :
        /\ FacadeCall(t)
        /\ fr[t].wrote
        /\ fr[t].startReturned = 2
        /\ facades[fr[t].prefix].born < 2
        /\ fr[t].l.cfg = 2
        /\ fr[t].o.cfg = 2

\* C2: the base logger and the outputs one log call uses were stored by the
\* same SetOutputs call.
C2_OneConfigurationPerEvent ==
    \A t \in Threads :
        (FacadeCall(t) /\ fr[t].l # Nil /\ fr[t].o # Nil) => fr[t].l.cfg = fr[t].o.cfg

\* C3: no log call made through a facade panics on an empty builder cell or
\* an empty outputs cell, also when no SetOutputs call was made before it.
C3_LogBeforeConfigCompletes ==
    \A t \in Threads : FacadeCall(t) => fr[t].pc # "panicked"

Finished(t) == fr[t].pc \in {"done", "exited"}

\* C4: every Error, Errorf and Errorw call that returns, through a facade or
\* on the zap-backed logger, returns an error value (never nil), whatever
\* its operands and whether or not the Write on the error writer failed.
C4_ErrorReturnsNonNil ==
    \A t \in Threads :
        (fr[t].op \in ErrorOps /\ fr[t].pc = "done") => IsError(fr[t].ret)

\* Error(nil) on a facade whose error writer fails has returned an error
C4_Witness ==
    \E t \in Threads :
        /\ FacadeCall(t)
        /\ fr[t].op = "Error"
        /\ fr[t].pc = "done"
        /\ fr[t].arg = NilValue
        /\ fr[t].out \in FailingWriters
        /\ fr[t].unableToLog # <<>>
        /\ IsError(fr[t].ret)

\* C5: Error(arg) returns arg itself when arg is an error, and otherwise a
\* new error whose text is the %v rendering of arg, on the stream backend
\* and on the zap-backed logger alike; Fatal(arg) hands its handler the
\* same.
C5_ErrorKeepsIdentity ==
    \A t \in Threads :
        /\ (fr[t].op = "Error" /\ fr[t].pc = "done") =>
              IF IsError(fr[t].arg)
              THEN fr[t].ret = fr[t].arg
              ELSE IsError(fr[t].ret) /\ fr[t].ret.text = Sprint(fr[t].arg)
        /\ (fr[t].op = "Fatal" /\ fr[t].fatals # <<>>) =>
              IF IsError(fr[t].arg)
              THEN fr[t].fatals[1].err = fr[t].arg
              ELSE fr[t].fatals[1].err.text = Sprint(fr[t].arg)

\* C6: Errorf(message, args...) returns the first of args that is an error,
\* the value itself, and when none is an error a new error whose text is
\* the formatted message.
C6_ErrorfReturnsFirstError ==
    \A t \in Threads :
        (fr[t].op = "Errorf" /\ fr[t].pc = "done") =>
            IF FirstError(fr[t].args) # Nil
            THEN fr[t].ret = FirstError(fr[t].args)
            ELSE IsError(fr[t].ret) /\ fr[t].ret.text = Sprintf(fr[t].message, fr[t].args)

\* C7: a Fatal, Fatalf or Fatalw call through a facade has invoked no fatal
\* handler until its message is written and reported, and by the time it
\* ends it has invoked exactly one: the function registered in the onFatal
\* cell, handed an error whose text is the message that was logged (for
\* Fatal of a string, that string).
C7_FatalCallsHandlerOnce ==
    \A t \in Threads :
        (FacadeCall(t) /\ fr[t].op \in FatalOps) =>
            IF Finished(t)
            THEN /\ Len(fr[t].fatals) = 1
                 /\ fr[t].fatals[1].fn = onFatal.fn
                 /\ IsError(fr[t].fatals[1].err)
                 /\ fr[t].line # Nil
                 /\ fr[t].fatals[1].err.text = fr[t].line.msg
                 /\ (fr[t].op = "Fatal" /\ fr[t].arg.kind = "string") =>
                        fr[t].fatals[1].err.text = fr[t].arg.s
            ELSE fr[t].fatals = <<>>

\* Fatal("x") has called the function given to OnFatal once, with an error
\* whose text is "x"
C7_Witness ==
    \E t \in Threads :
        /\ FacadeCall(t)
        /\ fr[t].op = "Fatal"
        /\ fr[t].arg = StringValue("x")
        /\ fr[t].pc = "done"
        /\ Len(fr[t].fatals) = 1
        /\ fr[t].fatals[1].fn \in Handlers
        /\ fr[t].fatals[1].err.text = "x"

\* C8: whenever a fatal handler is invoked, the Write of the call's FATAL
\* message on the error writer has returned (successfully or not).
C8_WriteBeforeFatalHandler ==
    \A t \in Threads :
        \A i \in DOMAIN fr[t].fatals :
            /\ fr[t].fatals[i].afterWrite
            /\ fr[t].wrote
            /\ fr[t].line # Nil
            /\ fr[t].line.severity = SeverityString(FATAL)
            /\ fr[t].out = fr[t].o.ErrorOut

\* a Fatal call whose Write failed has invoked the handler after the Write
C8_Witness ==
    \E t \in Threads :
        /\ fr[t].op \in FatalOps
        /\ fr[t].fatals # <<>>
        /\ fr[t].wrote
        /\ fr[t].out \in FailingWriters
        /\ fr[t].unableToLog # <<>>

\* C9, as stated: a Fatal call invokes the handler that was registered when
\* the call started (and a call started after a swap the new one).
C9_HandlerOfCallStart ==
    \A t \in Threads :
        \A i \in DOMAIN fr[t].fatals : fr[t].fatals[i].seq = fr[t].startFatal

\* C9, amended: a Fatal call invokes the handler that is registered when it
\* loads the onFatal cell, after its message is written: never one replaced
\* before the call started, so a call started after a swap returned invokes
\* the new handler or a later one, while a call started before the swap may
\* invoke either; OnFatal and DefaultOnFatal leave the function they were
\* given in the cell, DefaultOnFatal the default one whatever preceded it,
\* and invoking the default one ends the process with status 1.
C9_HandlerOfInvocationTime ==
    /\ \A t \in Threads :
         \A i \in DOMAIN fr[t].fatals :
            /\ fr[t].fatals[i].seq >= fr[t].startFatal
            /\ fr[t].fatals[i].seq <= onFatal.seq
            /\ fr[t].fatals[i].seq = onFatal.seq => fr[t].fatals[i].fn = onFatal.fn
            /\ fr[t].fatals[i].fn = DefaultHandler <=> fr[t].pc = "exited"
            /\ fr[t].pc = "exited" => halted = "exit1"
    /\ \A t \in Configurators :
         (fr[t].op \in {"OnFatal", "DefaultOnFatal"} /\ fr[t].pc = "done") =>
            onFatal.fn = fr[t].fn

\* a Fatal call that started under one handler has invoked the one a swap
\* stored while the call was running
C9_Witness ==
    \E t \in Threads :
        /\ fr[t].op \in FatalOps
        /\ fr[t].fatals # <<>>
        /\ fr[t].fatals[1].seq > fr[t].startFatal

C11_TraceOffWritesNothing ==
    \A t \in Threads :
        /\ (FacadeCall(t) /\ fr[t].op \in TraceOps /\ ~fr[t].traceOn) =>
              /\ ~fr[t].wrote
              /\ fr[t].line = Nil
              /\ fr[t].o = Nil
              /\ fr[t].out = "none"
              /\ fr[t].buf = Nil
              /\ fr[t].unableToLog = <<>>
              /\ fr[t].pc \in {"getBaseLogger", "getOutputs", "done", "panicked"}
        /\ (fr[t].op = "TraceOut.Write"
              /\ \E p \in Prefixes : facades[p] # Nil /\ ~facades[p].traceOn) =>
              /\ fr[t].out = "discard"
              /\ ~fr[t].wrote
              /\ traceOut = Discard

\* with TRACE=false, Tracef on a facade has returned without writing, the
\* outputs having been set after the facade was made
C11_Witness ==
    \E t \in Threads :
        /\ FacadeCall(t)
        /\ fr[t].op = "Tracef"
        /\ fr[t].pc = "done"
        /\ ~fr[t].traceOn
        /\ ~fr[t].wrote
        /\ traceEnv = "false"
        /\ outs # Nil
        /\ outs.cfg > facades[fr[t].prefix].born

\* the value printed for key k: that of the last pair of kv with this key,
\* else the one the operation context holds
RECURSIVE LastValue(_, _, _)
LastValue(kv, oc, k) ==
    IF Len(kv) < 2 THEN oc[k]
    ELSE IF kv[Len(kv) - 1] = StringValue(k) THEN kv[Len(kv)]
    ELSE LastValue(SubSeq(kv, 1, Len(kv) - 2), oc, k)

\* "k1=v1 k2=v2 ..." for keys, the values looked up in kv and oc
RECURSIVE SuffixOf(_, _, _)
SuffixOf(keys, kv, oc) ==
    IF keys = <<>> THEN ""
    ELSE (IF Len(keys) > 1 THEN SuffixOf(SubSeq(keys, 1, Len(keys) - 1), kv, oc) \o " "
          ELSE "")
         \o keys[Len(keys)] \o "=" \o Sprint(LastValue(kv, oc, keys[Len(keys)]))

\* C12: when the stream backend's Debugw or Errorw is handed a non-empty
\* list of key/value pairs with an even number of elements, the line it
\* writes ends in " [k1=v1 k2=v2 ...]" where the keys are exactly the keys
\* of the list and of the operation context, each once, in strictly
\* ascending byte order whatever the order of the list, each with its last
\* value; and when there is no key at all the line has no bracket: it is
\* header, message and newline.
C12_ContextKeysSortedOnce ==
    \A t \in Threads :
        (FacadeCall(t) /\ fr[t].method \in {"Debugw", "Errorw"} /\ fr[t].wrote) =>
            LET kv == fr[t].kv
                explicit == Len(kv) > 0 /\ Len(kv) % 2 = 0
                keys == fr[t].line.ctx.keys
                first == fr[t].line.lines[1]
            IN /\ explicit =>
                    /\ {keys[i] : i \in DOMAIN keys}
                         = {kv[i].s : i \in {j \in DOMAIN kv : j % 2 = 1}} \cup DOMAIN fr[t].oc
                    /\ \A i, j \in DOMAIN keys : i < j => LessString(keys[i], keys[j])
                    /\ first.context = " [" \o SuffixOf(keys, kv, fr[t].oc) \o "]"
               /\ keys = <<>> =>
                    /\ first.context = ""
                    /\ fr[t].line.text = first.header \o first.text \o "\n"
               /\ Len(fr[t].line.lines) = 1

\* Debugw("m", "ab", 2, "a", "x", "B", 1, "a", "") has written the line
\* that ends in [B=1 a= ab=2]
C12_Witness ==
    \E t \in Threads :
        /\ FacadeCall(t)
        /\ fr[t].method = "Debugw"
        /\ fr[t].wrote
        /\ Len(fr[t].kv) = 8
        /\ fr[t].oc = EmptyMap
        /\ fr[t].line.ctx.keys = <<"B", "a", "ab">>
        /\ fr[t].line.text = "DEBUG myprefix: f.go:1 m [B=1 a= ab=2]\n"

\* C13: the pool never holds a buffer whose array grew beyond
\* maxBufferSize: a log call that made its buffer grow beyond it does not
\* put the buffer back.
C13_PoolKeepsNoOversizedBuffer ==
    \A i \in DOMAIN bufferPool : bufferPool[i].cap <= maxBufferSize

\* C14: between its Get and its Put a log call holds a buffer that no other
\* call in flight holds and that is not in the pool, and the pool holds no
\* buffer twice; the call makes one Write on its writer, and the bytes of
\* that Write are the whole line of its own event and nothing else:
\* severity, line prefix, message, newline.
C14_OneBufferOneWritePerEvent ==
    /\ \A t, u \in Threads :
         (t # u /\ fr[t].buf # Nil /\ fr[u].buf # Nil) => fr[t].buf.id # fr[u].buf.id
    /\ \A t \in Threads : \A i \in DOMAIN bufferPool :
         fr[t].buf # Nil => bufferPool[i].id # fr[t].buf.id
    /\ \A i, j \in DOMAIN bufferPool : i # j => bufferPool[i].id # bufferPool[j].id
    /\ \A t \in Threads :
         /\ fr[t].pc = "write" => fr[t].buf # Nil /\ fr[t].writes = 0
         /\ (FacadeCall(t) /\ fr[t].wrote) =>
              /\ fr[t].writes = 1
              /\ fr[t].buf = Nil
              /\ fr[t].line # Nil
              /\ fr[t].line.text =
                    MethodSeverity(fr[t].method) \o " " \o fr[t].prefix \o ": f.go:1 "
                    \o (CASE fr[t].op = "Debug" -> fr[t].arg.s
                          [] fr[t].op \in {"Debugf", "Debugw"} -> Plain(fr[t].message)
                          [] OTHER -> fr[t].err.text)
                    \o "\n"

\* both goroutines are between Get and Put, one with a buffer that was in
\* the pool before, and a third call has already written its line
C14_Witness ==
    /\ fr["main"].pc = "write"
    /\ fr["worker"].pc = "write"
    /\ fr["main"].buf.id # fr["worker"].buf.id
    /\ fr["main"].arg = StringValue(LongText)
    /\ fr["worker"].buf.cap > 0

\* C15: when the Write of a log call fails, the call goes on as it does
\* after a Write that succeeds (an Error call returns its error, a Fatal
\* call reaches the handler, nothing panics), and errorOnLogging is called
\* once, with the error the Write returned; when the Write succeeds
\* errorOnLogging is not called.
C15_WriteErrorReportedOnce ==
    \A t \in Threads :
        (FacadeCall(t) /\ fr[t].wrote) =>
            IF fr[t].out \in FailingWriters
            THEN /\ fr[t].unableToLog = <<Sprint(WriteError(fr[t].out))>>
                 /\ fr[t].pc \in {"done", "report", "fatal", "exited"}
                 /\ (fr[t].op \in ErrorOps /\ fr[t].pc = "done") => fr[t].ret = fr[t].err
                 /\ (fr[t].op \in FatalOps /\ Finished(t)) => Len(fr[t].fatals) = 1
            ELSE fr[t].unableToLog = <<>>

C17_TraceWriterReportsClosureOnce ==
    traceOut.kind = "pipe" =>
        /\ \A i \in 1..Len(traceOut.traced) : IndexNewline(traceOut.traced[i], 1) = 0
        /\ traceOut.eofReads >= 1 =>
              /\ Cardinality({i \in 1..Len(traceOut.traced) :
                                 traceOut.traced[i] = ClosureReport}) = 1
              /\ traceOut.eofReads = 1

\* C18: the zap base logger is built at most once: a step that changes zlog
\* is the first build, and it builds from the zapConfig stored at that
\* moment (so a SetZapConfig that returned before it determines it); a step
\* that changes zapConfig leaves zlog as it is; and every ZapLogger call
\* returns the logger of that one build, named by its prefix, whatever
\* zapConfig holds when it is called.
C18_ZapLoggerBuiltOnce ==
    [][/\ (zlog' # zlog) =>
             /\ zlog = Nil
             /\ zlog'.config = zapConfig
             /\ zlog'.built = 1
       /\ (zapConfig' # zapConfig) => zlog' = zlog
       /\ \A t \in Threads :
             (fr[t].op = "ZapLogger" /\ fr[t].pc = "named" /\ fr'[t].pc = "done") =>
                 /\ zlog # Nil
                 /\ fr'[t].ret.name = fr[t].prefix
                 /\ fr'[t].ret.config = zlog.config
                 /\ fr'[t].ret.built = 1]_vars

\* a ZapLogger call made when zapConfig already held another configuration
\* has returned the logger built from the first one
C18_Witness ==
    \E t \in Threads :
        /\ fr[t].op = "ZapLogger"
        /\ fr[t].pc = "done"
        /\ fr[t].config \in ZapConfigs
        /\ fr[t].ret.config \in ZapConfigs
        /\ fr[t].config # fr[t].ret.config
        /\ zapConfig = fr[t].config

\* C19: the step in which a facade's level method resolves the base logger
\* and calls it, calls the base method of the same name, on a logger with the
\* facade's prefix, with the value, the message, the format arguments and the
\* key/value pairs of the facade call unchanged.
C19_FacadeCallsSameMethod ==
    [][\A t \in Threads :
          (FacadeCall(t) /\ fr[t].pc = "getBaseLogger" /\ fr'[t].pc = "getOutputs") =>
              /\ fr'[t].method = fr[t].op
              /\ fr'[t].arg = fr[t].arg
              /\ fr'[t].message = fr[t].message
              /\ fr'[t].args = fr[t].args
              /\ fr'[t].kv = fr[t].kv]_vars

\* the number of the first call of a producer that reports no more lines
RECURSIVE FirstLast(_, _)
FirstLast(calls, i) == IF ~calls[i].more THEN i ELSE FirstLast(calls, i + 1)

\* the bytes of lines i..n of an event: header, line, the context after
\* line 1 only, newline
RECURSIVE EventBytes(_, _, _, _, _)
EventBytes(header, calls, context, i, n) ==
    IF i > n THEN ""
    ELSE header \o calls[i].line \o (IF i = 1 THEN context ELSE "") \o "\n"
         \o EventBytes(header, calls, context, i + 1, n)

\* C20: an event whose primary value has the multi-line capability is
\* written as one line per call of the producer up to and including the
\* first call that reports no more lines, in order, each with the header
\* (severity, prefix, file:line), the context on the first line only, and
\* all of it in one Write.
C20_MultiLineOneLinePerProducedLine ==
    \A t \in Threads :
        (FacadeCall(t) /\ fr[t].wrote /\ IsMultiLine(PrintOperands(fr[t]).arg)) =>
            LET calls == PrintOperands(fr[t]).arg.mlp
                n == FirstLast(calls, 1)
                header == MethodSeverity(fr[t].method) \o " " \o LinePrefix(fr[t].l)
                lines == fr[t].line.lines
            IN /\ Len(lines) = n
               /\ \A i \in 1..n :
                     /\ lines[i].header = header
                     /\ lines[i].text = calls[i].line
                     /\ lines[i].context = IF i = 1 THEN fr[t].line.ctx.text ELSE ""
               /\ fr[t].writes = 1
               /\ BufferString(fr[t].line) =
                     EventBytes(header, calls, fr[t].line.ctx.text, 1, n)

\* a multi-line value with context was written: more than one line, and the
\* producer was not called again after it reported no more lines
C20_Witness ==
    \E t \in Threads :
        /\ FacadeCall(t)
        /\ fr[t].wrote
        /\ IsMultiLine(PrintOperands(fr[t]).arg)
        /\ fr[t].line.ctx.text # ""
        /\ Len(fr[t].line.lines) = 2
        /\ Len(PrintOperands(fr[t]).arg.mlp) = 4
        /\ fr[t].writes = 1

\* C21: no Write of the capture writer panics on the closed channel, t.Log
\* is never called once stop() has returned, a Write that finds the writer
\* stopped hands nothing to t.Log, and the run goroutine returns only after
\* the writer was stopped.
C21_StoppedWriterNeverLogs ==
    testLogWriter # Nil =>
        /\ halted # "panic"
        /\ \A i \in 1..Len(testLogWriter.logged) : ~testLogWriter.logged[i].late
        /\ testLogWriter.run.pc = "returned" => testLogWriter.stopped

\* C22: the file:line in the line a call of the text output has written is
\* the one of the call's own site, and the stack frames a call has printed
\* are the frames of its own stack above the runtime's.
C22_OwnCallSiteAndStack ==
    \A t \in Threads :
        (fr[t].logger = "textOutput" /\ fr[t].wrote) =>
            /\ fr[t].linePrefix = fr[t].prefix \o fr[t].site \o " "
            /\ (fr[t].printStack /\ fr[t].pc = "done") =>
                   fr[t].stack = SubSeq(Callers(fr[t].site), 1, StackDepth - 1)

====
